---- MODULE Spec2Model ----
(***************************************************************************)
(* BFF OpenAPI merge engine (tooling/src/brrtrouter_tooling/bff/merge.py). *)
(*                                                                         *)
(* Python strings are modelled as sequences of one-character strings, so   *)
(* that startswith, split, replace, capitalize and string comparison are   *)
(* computed character by character as the interpreter computes them.       *)
(* A JSON-like schema body is modelled by the list of its "$ref" nodes in  *)
(* traversal order: the recursive walks of merge.py only read and write    *)
(* those nodes.                                                            *)
(***************************************************************************)
EXTENDS Integers, Sequences, FiniteSets, TLC

\* ------------------------------------------------------------------------
\* Characters and Python str primitives
\* ------------------------------------------------------------------------

\* The characters used, in ascending code point order (str comparison order).
Punctuation ==
    << "#", "-", ".", "/", "0", "1", "2", "3", "4", "5", "6", "7", "8", "9" >>

UpperCase ==
    << "A", "B", "C", "D", "E", "F", "G", "H", "I", "J", "K", "L", "M",
       "N", "O", "P", "Q", "R", "S", "T", "U", "V", "W", "X", "Y", "Z" >>

LowerCase ==
    << "a", "b", "c", "d", "e", "f", "g", "h", "i", "j", "k", "l", "m",
       "n", "o", "p", "q", "r", "s", "t", "u", "v", "w", "x", "y", "z" >>

CodePoints == Punctuation \o UpperCase \o LowerCase

Chars == {CodePoints[i] : i \in 1..Len(CodePoints)}

\* ord(c), up to the gaps between the characters used
OrdTable == [c \in Chars |-> CHOOSE i \in 1..Len(CodePoints) : CodePoints[i] = c]

Ord(c) == OrdTable[c]

\* str.upper() / str.lower() on one character
UpperTable ==
    [c \in Chars |->
        IF \E i \in 1..Len(LowerCase) : LowerCase[i] = c
        THEN UpperCase[CHOOSE i \in 1..Len(LowerCase) : LowerCase[i] = c]
        ELSE c]

LowerTable ==
    [c \in Chars |->
        IF \E i \in 1..Len(UpperCase) : UpperCase[i] = c
        THEN LowerCase[CHOOSE i \in 1..Len(UpperCase) : UpperCase[i] = c]
        ELSE c]

ToUpper(c) == UpperTable[c]
ToLower(c) == LowerTable[c]

\* str.capitalize(): first character upper-cased, the rest lower-cased
Capitalize(w) ==
    [i \in 1..Len(w) |-> IF i = 1 THEN ToUpper(w[i]) ELSE ToLower(w[i])]

\* s.startswith(p)
StartsWith(s, p) ==
    /\ Len(p) <= Len(s)
    /\ \A i \in 1..Len(p) : s[i] = p[i]

\* s[n:]
Drop(s, n) == IF n >= Len(s) THEN <<>> ELSE SubSeq(s, n + 1, Len(s))

\* s < t for Python str (lexicographic by code point)
RECURSIVE StrLess(_, _)
StrLess(s, t) ==
    IF t = <<>> THEN FALSE
    ELSE IF s = <<>> THEN TRUE
    ELSE IF Head(s) = Head(t) THEN StrLess(Tail(s), Tail(t))
    ELSE Ord(Head(s)) < Ord(Head(t))

\* the sorted list q with the string x inserted at its place
Insert(q, x) ==
    LET k == Cardinality({i \in 1..Len(q) : StrLess(q[i], x)})
    IN  SubSeq(q, 1, k) \o <<x>> \o SubSeq(q, k + 1, Len(q))

\* sorted(S) for a set of strings
RECURSIVE SortedSeq(_)
SortedSeq(S) ==
    IF S = {} THEN <<>>
    ELSE LET x == CHOOSE y \in S : TRUE
         IN  Insert(SortedSeq(S \ {x}), x)

\* sub occurs in s at position i
MatchAt(s, i, sub) ==
    /\ i + Len(sub) - 1 <= Len(s)
    /\ \A k \in 1..Len(sub) : s[i + k - 1] = sub[k]

\* s.split(sep) for a non-empty sep: the pieces between the occurrences of
\* sep, found left to right from position i; the current piece began at start
RECURSIVE SplitFrom(_, _, _, _)
SplitFrom(s, sep, i, start) ==
    IF i + Len(sep) - 1 > Len(s) THEN <<SubSeq(s, start, Len(s))>>
    ELSE IF MatchAt(s, i, sep)
         THEN <<SubSeq(s, start, i - 1)>>
                  \o SplitFrom(s, sep, i + Len(sep), i + Len(sep))
         ELSE SplitFrom(s, sep, i + 1, start)

Split(s, sep) == SplitFrom(s, sep, 1, 1)

\* "".join(parts)
RECURSIVE Join(_)
Join(parts) == IF parts = <<>> THEN <<>> ELSE Head(parts) \o Join(Tail(parts))

\* sub in s
Contains(s, sub) == \E i \in 1..(Len(s) - Len(sub) + 1) : MatchAt(s, i, sub)

\* s.replace(old, new): every non-overlapping occurrence, left to right; an
\* empty old matches before every character and at the end
RECURSIVE ReplaceFrom(_, _, _, _, _)
ReplaceFrom(s, old, new, i, start) ==
    IF i + Len(old) - 1 > Len(s) THEN SubSeq(s, start, Len(s))
    ELSE IF MatchAt(s, i, old)
         THEN SubSeq(s, start, i - 1) \o new
                  \o ReplaceFrom(s, old, new, i + Len(old), i + Len(old))
         ELSE ReplaceFrom(s, old, new, i + 1, start)

Replace(s, old, new) ==
    IF old = <<>>
    THEN Join([k \in 1..Len(s) |-> new \o <<s[k]>>]) \o new
    ELSE ReplaceFrom(s, old, new, 1, 1)

\* s.rstrip("/") and s.strip("/")
RECURSIVE RStripSlash(_)
RStripSlash(s) ==
    IF s # <<>> /\ s[Len(s)] = "/" THEN RStripSlash(SubSeq(s, 1, Len(s) - 1)) ELSE s

RECURSIVE LStripSlash(_)
LStripSlash(s) == IF s # <<>> /\ Head(s) = "/" THEN LStripSlash(Tail(s)) ELSE s

StripSlash(s) == RStripSlash(LStripSlash(s))

\* d[k] = v on a mapping
Put(d, k, v) == [x \in DOMAIN d \cup {k} |-> IF x = k THEN v ELSE d[x]]

\* the elements of a list
Range(q) == {q[i] : i \in 1..Len(q)}

\* ------------------------------------------------------------------------
\* bff/_text.py and the string literals of bff/merge.py
\* ------------------------------------------------------------------------

\* "".join(word.capitalize() for word in name.split("-"))
_to_pascal_case(name) ==
    LET words == Split(name, <<"-">>)
    IN  Join([i \in 1..Len(words) |-> Capitalize(words[i])])

\* "#/components/schemas/"
RefMarker ==
    << "#", "/", "c", "o", "m", "p", "o", "n", "e", "n", "t", "s", "/",
       "s", "c", "h", "e", "m", "a", "s", "/" >>

\* f"#/components/schemas/{name}"
SchemaRef(name) == RefMarker \o name

\* "Error"
ErrorName == << "E", "r", "r", "o", "r" >>

\* the method names accepted by _merge_one_sub_service and _update_refs_in_paths
Methods == {"get", "post", "put", "patch", "delete", "options", "head", "trace"}

\* the value None returned by _service_prefix_for_schema (not a string)
None == << "<None>" >>

\* ------------------------------------------------------------------------
\* The helpers of bff/merge.py
\*
\* A schema body is [isDict, type, required, properties, refs]; refs is the
\* list of the values of its "$ref" nodes.  An operation is
\* [isDict, requestBody, responses, other]: the "$ref" values under
\* op["requestBody"], under the "content" of each response, and elsewhere.
\* ------------------------------------------------------------------------

\* _update_refs_in_value over every "$ref" node of a value: exact match only
_update_refs_in_value(refs, old_name, new_name) ==
    [i \in 1..Len(refs) |->
        IF refs[i] = SchemaRef(old_name) THEN SchemaRef(new_name) ELSE refs[i]]

\* _merge_schemas as it would be with the service prefix left out of the key
RECURSIVE _merge_schemas_unprefixed(_, _, _)
_merge_schemas_unprefixed(all_schemas, service_name, schemas) ==
    IF schemas = <<>> THEN all_schemas
    ELSE LET schema_name == Head(schemas).name
             schema_def  == Head(schemas).def
             prefixed    == schema_name
             copied      ==
                 IF schema_def.isDict
                 THEN [schema_def EXCEPT
                          !.refs = _update_refs_in_value(@, schema_name, prefixed)]
                 ELSE schema_def
         IN  _merge_schemas_unprefixed(Put(all_schemas, prefixed, copied),
                                       service_name, Tail(schemas))

\* _merge_schemas: every schema of the service enters all_schemas under
\* PascalCase(service) + name, later entries overwriting equal keys
RECURSIVE _merge_schemas(_, _, _)
_merge_schemas(all_schemas, service_name, schemas) ==
    IF schemas = <<>> THEN all_schemas
    ELSE LET schema_name == Head(schemas).name
             schema_def  == Head(schemas).def
             prefixed    == _to_pascal_case(service_name) \o schema_name
             copied      ==
                 IF schema_def.isDict
                 THEN [schema_def EXCEPT
                          !.refs = _update_refs_in_value(@, schema_name, prefixed)]
                 ELSE schema_def
         IN  _merge_schemas(Put(all_schemas, prefixed, copied),
                            service_name, Tail(schemas))

\* _update_refs_in_paths: request bodies and response contents of every
\* operation of every merged path (all_paths holds mappings only, line 86)
_update_refs_in_paths(paths, old_name, new_name) ==
    [p \in DOMAIN paths |->
        [m \in DOMAIN paths[p] |->
            LET op == paths[p][m]
            IN  IF m \notin Methods \/ ~op.isDict THEN op
                ELSE [op EXCEPT
                        !.requestBody = _update_refs_in_value(@, old_name, new_name),
                        !.responses   = _update_refs_in_value(@, old_name, new_name)]]]

\* _downstream_path as the plain f"{base_path}{bff_path}"
_downstream_path_unstripped(base_path, bff_path) == base_path \o bff_path

\* _downstream_path
_downstream_path(base_path, bff_path) ==
    LET base == RStripSlash(base_path)
        path == StripSlash(bff_path)
    IN  IF path # <<>> THEN base \o <<"/">> \o path ELSE base

\* lines 88-108: the copy of one path item with the proxy extensions set on
\* each operation
TagPathItem(sname, base_path, path, path_def) ==
    [m \in DOMAIN path_def |->
        LET op == path_def[m]
        IN  IF m \notin Methods \/ ~op.isDict THEN op
            ELSE [isDict      |-> TRUE,
                  requestBody |-> op.requestBody,
                  responses   |-> op.responses,
                  other       |-> op.other,
                  xService    |-> sname,
                  xBasePath   |-> base_path,
                  xDownstream |-> _downstream_path(base_path, path)]]

\* lines 84-109 with all_paths assigned this service's paths instead of
\* being updated with them
MergePaths_replacing(all_paths, sname, base_path, paths) ==
    LET mine == {p \in DOMAIN paths : paths[p].isDict}
    IN  [p \in mine |-> TagPathItem(sname, base_path, p, paths[p].items)]

\* lines 84-109: all_paths[path] = path_def for every mapping-valued path
MergePaths(all_paths, sname, base_path, paths) ==
    LET mine == {p \in DOMAIN paths : paths[p].isDict}
    IN  [p \in DOMAIN all_paths \cup mine |->
            IF p \in mine
            THEN TagPathItem(sname, base_path, p, paths[p].items)
            ELSE all_paths[p]]

\* lines 113-115: one _update_refs_in_paths per schema name, in dict order
RECURSIVE PrefixRefsInPaths(_, _, _)
PrefixRefsInPaths(all_paths, sname, schemas) ==
    IF schemas = <<>> THEN all_paths
    ELSE LET schema_name == Head(schemas).name
             prefixed    == _to_pascal_case(sname) \o schema_name
         IN  PrefixRefsInPaths(
                 _update_refs_in_paths(all_paths, schema_name, prefixed),
                 sname, Tail(schemas))

\* lines 117-120 without the test of line 119: the last definition wins
RECURSIVE MergeParams_last_wins(_, _)
MergeParams_last_wins(merged_params, params) ==
    IF params = <<>> THEN merged_params
    ELSE LET pn == Head(params).name
             Other(e) == e.name # pn
         IN  MergeParams_last_wins(
                 Append(SelectSeq(merged_params, Other), Head(params)),
                 Tail(params))

\* lines 117-120: first definition of a parameter name wins
RECURSIVE MergeParams(_, _)
MergeParams(merged_params, params) ==
    IF params = <<>> THEN merged_params
    ELSE LET pn == Head(params).name
         IN  MergeParams(
                 IF \E i \in 1..Len(merged_params) : merged_params[i].name = pn
                 THEN merged_params
                 ELSE Append(merged_params, Head(params)),
                 Tail(params))

\* line 82: t.get("name", str(t)) if isinstance(t, dict) else str(t); a tag is
\* [isDict, value], the object {"name": value} or the plain string value
TagName(t) == t.value

\* lines 80-82 with the set of names replaced instead of extended
MergeTags_replacing(all_tags, tags) == {TagName(tags[i]) : i \in 1..Len(tags)}

\* lines 80-82: all_tags.add(...) for every tag of the document
MergeTags(all_tags, tags) == all_tags \cup {TagName(tags[i]) : i \in 1..Len(tags)}

\* _merge_one_sub_service on the four accumulators; files is the file system,
\* spec_path -> parsed YAML document
_merge_one_sub_service(st, sname, base_path, spec_path, files) ==
    IF spec_path \notin DOMAIN files THEN st
    ELSE LET spec   == files[spec_path]
             paths1 == MergePaths(st.all_paths, sname, base_path, spec.paths)
         IN  [all_tags      |-> MergeTags(st.all_tags, spec.tags),
              all_paths     |-> PrefixRefsInPaths(paths1, sname, spec.schemas),
              all_schemas   |-> _merge_schemas(st.all_schemas, sname, spec.schemas),
              merged_params |-> MergeParams(st.merged_params, spec.parameters)]


\* the names of the configured services: sub_services.keys(), insertion order
ServiceNames(subs) == [i \in 1..Len(subs) |-> subs[i].name]

\* _schema_name_mapping: unprefixed name -> prefixed candidates, appended in
\* the order of the two sorted loops
_schema_name_mapping(all_schemas, subs) ==
    LET keys   == SortedSeq(DOMAIN all_schemas)
        snames == SortedSeq(Range(ServiceNames(subs)))
        n      == Len(snames)
        visits == [j \in 1..(Len(keys) * n) |->
                     [prefixed |-> keys[((j - 1) \div n) + 1],
                      prefix   |-> _to_pascal_case(snames[((j - 1) % n) + 1])]]
        Hit(v) == StartsWith(v.prefixed, v.prefix)
        Unprefixed(v) == Drop(v.prefixed, Len(v.prefix))
        hits   == SelectSeq(visits, Hit)
    IN  [u \in {Unprefixed(hits[j]) : j \in 1..Len(hits)} |->
            LET Mine(v) == Unprefixed(v) = u
                sel == SelectSeq(hits, Mine)
            IN  [j \in 1..Len(sel) |-> sel[j].prefixed]]

\* _service_prefix_for_schema: the prefix of the first service, in the
\* iteration order of sub_services, whose prefix starts the key
_service_prefix_for_schema(prefixed_key, subs) ==
    LET Hit(i) == StartsWith(prefixed_key, _to_pascal_case(subs[i].name))
    IN  IF \E i \in 1..Len(subs) : Hit(i)
        THEN LET first == CHOOSE i \in 1..Len(subs) :
                              Hit(i) /\ \A j \in 1..(i - 1) : ~Hit(j)
             IN  _to_pascal_case(subs[first].name)
        ELSE None

\* lines 160-171 on one "$ref" value
ResolveRef(ref, mapping, all_schemas, service_prefix) ==
    IF ~Contains(ref, RefMarker) THEN ref
    ELSE LET pieces     == Split(ref, RefMarker)
             unprefixed == pieces[Len(pieces)]
         IN  IF unprefixed \notin DOMAIN mapping THEN ref
             ELSE LET Own(p) == StartsWith(p, service_prefix)
                      candidates ==
                          IF service_prefix # None
                          THEN SelectSeq(mapping[unprefixed], Own)
                          ELSE mapping[unprefixed]
                      Known(p) == p \in DOMAIN all_schemas
                      usable == SelectSeq(candidates, Known)
                  IN  IF usable = <<>> THEN ref
                      ELSE Replace(ref, unprefixed, Head(usable))

\* _update_all_refs_in_value over every "$ref" node of a schema body
_update_all_refs_in_value(refs, mapping, all_schemas, service_prefix) ==
    [i \in 1..Len(refs) |-> ResolveRef(refs[i], mapping, all_schemas, service_prefix)]

\* lines 253-257: the global pass over all merged schemas
ResolveAllSchemas(all_schemas, subs) ==
    LET mapping == _schema_name_mapping(all_schemas, subs)
    IN  [k \in DOMAIN all_schemas |->
            IF all_schemas[k].isDict
            THEN [all_schemas[k] EXCEPT
                    !.refs = _update_all_refs_in_value(
                                 @, mapping, all_schemas,
                                 _service_prefix_for_schema(k, subs))]
            ELSE all_schemas[k]]

\* lines 185-198: the synthesized Error schema
DefaultErrorSchema ==
    [isDict     |-> TRUE,
     type       |-> "object",
     required   |-> {"error", "message"},
     properties |-> [error   |-> [type |-> "string", nullable |-> FALSE],
                     message |-> [type |-> "string", nullable |-> FALSE],
                     details |-> [type |-> "object", nullable |-> TRUE]],
     refs       |-> <<>>]

\* {"$ref": f"#/components/schemas/{pe}"}
RefAlias(pe) ==
    [isDict     |-> TRUE,
     type       |-> "$ref",
     required   |-> {},
     properties |-> <<>>,
     refs       |-> <<SchemaRef(pe)>>]

\* _add_error_schema on (all_schemas, all_paths)
_add_error_schema(all_schemas, all_paths, subs) ==
    LET schemas1 == IF ErrorName \notin DOMAIN all_schemas
                    THEN Put(all_schemas, ErrorName, DefaultErrorSchema)
                    ELSE all_schemas
        snames   == SortedSeq(Range(ServiceNames(subs)))
        Pe(i)    == _to_pascal_case(snames[i]) \o ErrorName
        Hit(i)   == Pe(i) \in DOMAIN schemas1
    IN  IF \E i \in 1..Len(snames) : Hit(i)
        THEN LET first == CHOOSE i \in 1..Len(snames) :
                              Hit(i) /\ \A j \in 1..(i - 1) : ~Hit(j)
             IN  [all_paths   |-> _update_refs_in_paths(all_paths, ErrorName, Pe(first)),
                  all_schemas |-> Put(schemas1, ErrorName, RefAlias(Pe(first)))]
        ELSE [all_paths |-> all_paths, all_schemas |-> schemas1]

\* lines 260-263: the returned document; a dict is its sorted key list and
\* its mapping
Assemble(all_tags, all_paths, all_schemas, merged_params) ==
    [openapi    |-> "3.1.0",
     hasInfo    |-> TRUE,
     tags       |-> LET names == SortedSeq(all_tags)
                    IN  [k \in 1..Len(names) |-> [name |-> names[k]]],
     pathKeys   |-> SortedSeq(DOMAIN all_paths),
     paths      |-> all_paths,
     parameters |-> merged_params,
     schemaKeys |-> SortedSeq(DOMAIN all_schemas),
     schemas    |-> all_schemas]


\* merge_sub_service_specs as one function: the fold of the loop of line 236
\* over the sorted services, then lines 252-263
EmptyAccumulators ==
    [all_tags |-> {}, all_paths |-> <<>>, all_schemas |-> <<>>, merged_params |-> <<>>]

ConfigOf(subs, sname) == subs[CHOOSE i \in 1..Len(subs) : subs[i].name = sname]

RECURSIVE MergeLoop(_, _, _, _)
MergeLoop(st, subs, snames, files) ==
    IF snames = <<>> THEN st
    ELSE LET cfg == ConfigOf(subs, Head(snames))
         IN  MergeLoop(_merge_one_sub_service(st, cfg.name, cfg.base_path,
                                              cfg.spec_path, files),
                       subs, Tail(snames), files)

merge_sub_service_specs(subs, files) ==
    LET st       == MergeLoop(EmptyAccumulators, subs,
                              SortedSeq(Range(ServiceNames(subs))), files)
        resolved == ResolveAllSchemas(st.all_schemas, subs)
        unified  == _add_error_schema(resolved, st.all_paths, subs)
    IN  Assemble(st.all_tags, unified.all_paths, unified.all_schemas,
                 st.merged_params)

\* ------------------------------------------------------------------------
\* The inputs: service names, schema names, paths and documents
\* ------------------------------------------------------------------------

\* the most services in one sub_services mapping
MaxServices == 3

Api    == << "a", "p", "i" >>
ApiWeb == << "a", "p", "i", "-", "w", "e", "b" >>
Auth   == << "a", "u", "t", "h" >>
Idam   == << "i", "d", "a", "m" >>

ServiceUniverse == {Api, ApiWeb, Auth, Idam}

User       == << "U", "s", "e", "r" >>
Addr       == << "A", "d", "d", "r" >>
WebError   == << "W", "e", "b" >> \o ErrorName
LowerName  == << "s", "c", "h", "e", "m", "a" >>
AnyName    == << "A", "n", "y" >>
ExternalRef == << "c", "o", "m", "m", "o", "n", "#", "/", "X" >>

Items == << "/", "i", "t", "e", "m", "s" >>
Root  == << "/" >>
ItemsSlashes == << "/", "/", "i", "t", "e", "m", "s", "/" >>

TagOrders  == << "o", "r", "d", "e", "r", "s" >>
TagAdmin   == << "a", "d", "m", "i", "n" >>

\* a tag object {"name": name}, and a tag given as a plain string
TagObject(name) == [isDict |-> TRUE, value |-> name]
TagString(name) == [isDict |-> FALSE, value |-> name]

\* an object schema whose "$ref" nodes are refs
ObjectSchema(p, refs) ==
    [isDict     |-> TRUE,
     type       |-> "object",
     required   |-> {},
     properties |-> [x \in {p} |-> [type |-> "string", nullable |-> FALSE]],
     refs       |-> refs]

\* a schema that is not a mapping (the boolean schema `true`)
BooleanSchema ==
    [isDict |-> FALSE, type |-> "true", required |-> {}, properties |-> <<>>,
     refs |-> <<>>]

Operation(req, resp) ==
    [isDict |-> TRUE, requestBody |-> req, responses |-> resp, other |-> <<>>]

PathItem(items) == [isDict |-> TRUE, items |-> items]

\* a path whose value is not a mapping ("/": with an empty body)
NullPathItem == [isDict |-> FALSE, items |-> <<>>]

\* the value of a key that the document does not have
Missing == "<missing>"

\* a parsed document: its "openapi" value, whether it has "info" and "paths",
\* and its tags, paths, components.schemas and components.parameters
Document(tags, paths, schemas, parameters) ==
    [openapi |-> "3.1.0", hasInfo |-> TRUE, hasPaths |-> TRUE,
     tags |-> tags, paths |-> paths, schemas |-> schemas, parameters |-> parameters]

\* Addr and User -> Addr, User; GET /items answering User or Error
CatalogDocument ==
    Document(
        <<TagObject(TagOrders)>>,
        [p \in {Items} |->
            PathItem([m \in {"get"} |->
                Operation(<<>>, <<SchemaRef(User), SchemaRef(ErrorName)>>)])],
        << [name |-> Addr, def |-> ObjectSchema("street", <<>>)],
           [name |-> User, def |-> ObjectSchema("address",
                                     <<SchemaRef(Addr), SchemaRef(User)>>)] >>,
        << [name |-> "page", def |-> "query" ] >>)

\* its own Error, and User -> Error; POST /items taking User, answering Error
OwnErrorDocument ==
    Document(
        <<TagString(TagAdmin), TagString(TagOrders)>>,
        [p \in {Items} |->
            PathItem([m \in {"post"} |->
                Operation(<<SchemaRef(User)>>, <<SchemaRef(ErrorName)>>)])],
        << [name |-> ErrorName, def |-> ObjectSchema("code", <<>>)],
           [name |-> User, def |-> ObjectSchema("error", <<SchemaRef(ErrorName)>>)] >>,
        << [name |-> "page", def |-> "header" ],
           [name |-> "limit", def |-> "query" ] >>)

\* WebError and User with an external ref and a ref to Addr, which the
\* document does not define; GET / answering WebError or Addr
WebErrorDocument ==
    Document(
        <<>>,
        [p \in {Root} |->
            PathItem([m \in {"get"} |->
                Operation(<<>>, <<SchemaRef(WebError), SchemaRef(Addr)>>)])],
        << [name |-> WebError, def |-> ObjectSchema("code", <<>>)],
           [name |-> User, def |-> ObjectSchema("id",
                                     <<ExternalRef, SchemaRef(Addr)>>)] >>,
        <<>>)

\* a lower-case schema name, a sibling referring to it, and a boolean schema;
\* DELETE //items/ without a body
LowerCaseDocument ==
    Document(
        <<TagObject(TagAdmin)>>,
        [p \in {ItemsSlashes} |->
            PathItem([m \in {"delete"} |-> Operation(<<>>, <<>>)])],
        << [name |-> LowerName, def |-> ObjectSchema("id", <<>>)],
           [name |-> User, def |-> ObjectSchema("schema", <<SchemaRef(LowerName)>>)],
           [name |-> AnyName, def |-> BooleanSchema] >>,
        <<>>)

\* no components; GET and PUT /items answering the bare Error, path-level
\* parameters, and a null path item
PathsOnlyDocument ==
    Document(
        <<>>,
        [p \in {Items, Root} |->
            IF p = Root THEN NullPathItem
            ELSE PathItem([m \in {"get", "put", "parameters"} |->
                    IF m = "parameters" THEN Operation(<<>>, <<>>)
                    ELSE Operation(<<>>, <<SchemaRef(ErrorName)>>)])],
        <<>>,
        << [name |-> "limit", def |-> "path" ] >>)

\* documents that fail the basic shape validation: "openapi: 3.0.3", no
\* "openapi", no "info", no "paths"
OldVersionDocument == [CatalogDocument EXCEPT !.openapi = "3.0.3"]
NoOpenapiDocument  == [OwnErrorDocument EXCEPT !.openapi = Missing]
NoInfoDocument     == [WebErrorDocument EXCEPT !.hasInfo = FALSE]
NoPathsDocument    ==
    [LowerCaseDocument EXCEPT !.hasPaths = FALSE, !.paths = <<>>]

\* the spec files on disk: _load_spec(p) is Files[p]
Files ==
    [f \in {"catalog.yaml", "own-error.yaml", "web-error.yaml",
            "lower-case.yaml", "paths-only.yaml", "old-version.yaml",
            "no-openapi.yaml", "no-info.yaml", "no-paths.yaml"} |->
        CASE f = "catalog.yaml"     -> CatalogDocument
          [] f = "own-error.yaml"   -> OwnErrorDocument
          [] f = "web-error.yaml"   -> WebErrorDocument
          [] f = "lower-case.yaml"  -> LowerCaseDocument
          [] f = "paths-only.yaml"  -> PathsOnlyDocument
          [] f = "old-version.yaml" -> OldVersionDocument
          [] f = "no-openapi.yaml"  -> NoOpenapiDocument
          [] f = "no-info.yaml"     -> NoInfoDocument
          [] f = "no-paths.yaml"    -> NoPathsDocument]

\* the spec_path values given to merge_sub_service_specs: well-shaped files,
\* and a path that does not exist
SpecPaths ==
    {"catalog.yaml", "own-error.yaml", "web-error.yaml", "lower-case.yaml",
     "paths-only.yaml", "missing.yaml"}

\* f"/api/{sname}"
DefaultBasePath(sname) == << "/", "a", "p", "i", "/" >> \o sname

\* cfg.get("base_path", f"/api/{sname}"): auth is configured with "/auth//",
\* idam with "/", the other services have no base_path
BasePathOf(sname) ==
    CASE sname = Auth -> << "/", "a", "u", "t", "h", "/", "/" >>
      [] sname = Idam -> << "/" >>
      [] OTHER        -> DefaultBasePath(sname)

\* ------------------------------------------------------------------------
\* merge_sub_service_specs as a state machine
\* ------------------------------------------------------------------------

VARIABLES
    sub_services,   \* the argument: [name, base_path, spec_path], insertion order
    pc,             \* "idle", "merge", "error", "assemble", "done"
    idx,            \* position of the loop of line 236 in the sorted services
    all_tags, all_paths, all_schemas, merged_params,
    bff,            \* the returned document
    raised          \* the exception raised, if any

mergeVars == <<sub_services, pc, idx, all_tags, all_paths, all_schemas,
               merged_params, bff, raised>>

\* generate_bff_spec
VARIABLES
    generate_pc,    \* "idle", "config", "merge", "write", "validate", "done"
    config,         \* config["_resolved"]["services"], insertion order
    validate,       \* the argument validate
    out_file        \* the parsed content of the output file, if written

generateVars == <<generate_pc, config, validate, out_file>>

\* generate_system_bff_spec
VARIABLES
    system_dir,     \* openapi_dir/system: whether it exists, and its entries
    output_path,    \* the directory under it that receives openapi.yaml
    runs            \* the directory before and after each call made so far

systemVars == <<system_dir, output_path, runs>>

\* process_dependabot_pr
VARIABLES
    pr,             \* the pull request: author, title, mergeable, mergeable_state
    comments,       \* the bodies of the comments on the pull request
    merges,         \* the "gh pr merge" commands run so far
    exit_code,      \* how the last run ended: "0", "1", "return"; "none" before
    handled,        \* the events handled so far
    last_run        \* the event of the last run and the pull request it saw

dependabotVars == <<pr, comments, merges, exit_code, handled, last_run>>

\* get_latest_tag
VARIABLES
    max_retries,    \* the argument
    attempt,        \* the loop variable of line 28
    requests,       \* the urlopen calls made
    sleeps,         \* the arguments of the time.sleep calls made, in order
    last_error,     \* the class of the last exception caught, None before
    response,       \* the outcome of the last request
    tag_pc,         \* "idle", "loop", "returned", "raised"
    tag_result,     \* the value returned
    tag_exit        \* the SystemExit raised: its retry count and its detail

tagVars == <<max_retries, attempt, requests, sleeps, last_error, response,
             tag_pc, tag_result, tag_exit>>

\* _next_version
VARIABLES
    bump_old,       \* the argument old
    bump_arg,       \* the argument bump
    bump_result,    \* the version returned, or the SystemExit raised
    bump_pc         \* "idle", "call", "done"

bumpVars == <<bump_old, bump_arg, bump_result, bump_pc>>

\* validate_version and run_validate_version_cli
VARIABLES
    current,        \* the arguments
    latest,
    allow_same,
    github,         \* the environment and what get_latest_tag would answer
    validated,      \* how validate_version(current, latest, allow_same) ended
    cli_exit        \* how run_validate_version_cli(current, latest, allow_same) ended

versionVars == <<current, latest, allow_same, github, validated, cli_exit>>

\* compare_versions
VARIABLES
    compared,       \* three version strings
    comparisons     \* compare_versions on every pair of them, row by row

compareVars == <<compared, comparisons>>

\* PortRegistry and fix_duplicates
VARIABLES
    registry,       \* the registry: next_port, reserved_ports, assignments
    helm,           \* service.port of the helm values file of each service
    suite_keepers,  \* load_suite_services: the services of the suites
    dry_run,        \* the argument of fix_duplicates
    ever_assigned,  \* the ports assign_port has handed out so far
    last_call,      \* the last call on the registry, with the registry before it
    port_calls,     \* the calls made so far
    fix_before      \* the registry and helm values fix_duplicates started from

portsVars ==
    <<registry, helm, suite_keepers, dry_run, ever_assigned, last_call,
      port_calls, fix_before>>

vars ==
    <<mergeVars, generateVars, systemVars, dependabotVars, tagVars, bumpVars,
      versionVars, compareVars, portsVars>>

NoDocument == <<>>
NoError == "none"

\* merge_sub_service_specs has not been called
MergeIdle ==
    /\ sub_services = <<>>
    /\ pc = "idle"
    /\ idx = 1
    /\ all_tags = {}
    /\ all_paths = <<>>
    /\ all_schemas = <<>>
    /\ merged_params = <<>>
    /\ bff = NoDocument
    /\ raised = NoError

\* generate_bff_spec has not been called
GenerateIdle ==
    /\ generate_pc = "idle"
    /\ config = <<>>
    /\ validate = FALSE
    /\ out_file = NoDocument

\* generate_system_bff_spec has not been called
SystemIdle ==
    /\ system_dir = [exists |-> FALSE, entries |-> <<>>]
    /\ output_path = <<>>
    /\ runs = <<>>

\* process_dependabot_pr has not been called
NoPullRequest ==
    [author |-> "", title |-> "", mergeable |-> FALSE, mergeable_state |-> ""]

\* no event was handled
NoEvent ==
    [name |-> "", has_pr |-> FALSE, DEPENDENCY_NAMES |-> "", UPDATE_TYPE |-> "",
     gh_ok |-> FALSE]

DependabotIdle ==
    /\ pr = NoPullRequest
    /\ comments = <<>>
    /\ merges = 0
    /\ exit_code = "none"
    /\ handled = 0
    /\ last_run = [event |-> NoEvent, pr |-> NoPullRequest]

\* no request has been answered, nothing was returned or raised
NoResponse == [kind |-> "none", tag_name |-> <<>>]
NoExit == [retries |-> 0, detail |-> "none"]

\* get_latest_tag has not been called
TagIdle ==
    /\ max_retries = 0
    /\ attempt = 0
    /\ requests = 0
    /\ sleeps = <<>>
    /\ last_error = "None"
    /\ response = NoResponse
    /\ tag_pc = "idle"
    /\ tag_result = None
    /\ tag_exit = NoExit

\* nothing was called yet: no result
NoResult == [kind |-> "none", value |-> None]

\* _next_version has not been called
BumpIdle ==
    /\ bump_old = <<>>
    /\ bump_arg = <<>>
    /\ bump_result = NoResult
    /\ bump_pc = "idle"

\* validate_version and run_validate_version_cli have not been called
VersionIdle ==
    /\ current = <<>>
    /\ latest = <<>>
    /\ allow_same = FALSE
    /\ github = [env |-> FALSE, raises |-> FALSE, tag |-> None]
    /\ validated = NoResult
    /\ cli_exit = NoResult

\* compare_versions has not been called
CompareIdle ==
    /\ compared = <<>>
    /\ comparisons = <<>>

\* no port registry was loaded
NoRegistry == [next_port |-> 0, reserved_ports |-> {}, assignments |-> <<>>]
NoCall ==
    [op |-> "none", service |-> "", force |-> FALSE, preferred |-> 0,
     before |-> NoRegistry, earlier |-> {}, port |-> 0, changed |-> FALSE,
     automatic |-> FALSE]
NoFix == [registry |-> NoRegistry, helm |-> <<>>, done |-> FALSE]

PortsIdle ==
    /\ registry = NoRegistry
    /\ helm = <<>>
    /\ suite_keepers = {}
    /\ dry_run = FALSE
    /\ ever_assigned = {}
    /\ last_call = NoCall
    /\ port_calls = 0
    /\ fix_before = NoFix

\* the variables that merge_sub_service_specs does not touch, those that
\* generate_bff_spec and the merge it calls do not touch, and so on
outsideMerge ==
    <<generateVars, systemVars, dependabotVars, tagVars, bumpVars,
      versionVars, compareVars, portsVars>>
outsideGenerate ==
    <<systemVars, dependabotVars, tagVars, bumpVars, versionVars, compareVars,
      portsVars>>
outsideSystem ==
    <<mergeVars, generateVars, dependabotVars, tagVars, bumpVars, versionVars,
      compareVars, portsVars>>
outsideDependabot ==
    <<mergeVars, generateVars, systemVars, tagVars, bumpVars, versionVars,
      compareVars, portsVars>>
outsideTag ==
    <<mergeVars, generateVars, systemVars, dependabotVars, bumpVars,
      versionVars, compareVars, portsVars>>
outsideBump ==
    <<mergeVars, generateVars, systemVars, dependabotVars, tagVars,
      versionVars, compareVars, portsVars>>
outsideVersion ==
    <<mergeVars, generateVars, systemVars, dependabotVars, tagVars, bumpVars,
      compareVars, portsVars>>
outsideCompare ==
    <<mergeVars, generateVars, systemVars, dependabotVars, tagVars, bumpVars,
      versionVars, portsVars>>
outsidePorts ==
    <<mergeVars, generateVars, systemVars, dependabotVars, tagVars, bumpVars,
      versionVars, compareVars>>

SortedServices == SortedSeq(Range(ServiceNames(sub_services)))

Init ==
    /\ \E n \in 0..MaxServices :
         \E names \in [1..n -> ServiceUniverse], docs \in [1..n -> SpecPaths] :
            /\ \A i, j \in 1..n : i # j => names[i] # names[j]
            /\ sub_services =
                 [i \in 1..n |-> [name      |-> names[i],
                                  base_path |-> BasePathOf(names[i]),
                                  spec_path |-> docs[i]]]
    /\ pc = "merge"
    /\ idx = 1
    /\ all_tags = {}
    /\ all_paths = <<>>
    /\ all_schemas = <<>>
    /\ merged_params = <<>>
    /\ bff = NoDocument
    /\ raised = NoError
    /\ GenerateIdle
    /\ SystemIdle
    /\ DependabotIdle
    /\ TagIdle
    /\ BumpIdle
    /\ VersionIdle
    /\ CompareIdle
    /\ PortsIdle

\* one iteration of the loop of lines 236-250
MergeNextService ==
    /\ pc = "merge"
    /\ idx <= Len(sub_services)
    /\ \E cfg \in {ConfigOf(sub_services, SortedServices[idx])} :
         \E st \in {_merge_one_sub_service(
                        [all_tags |-> all_tags, all_paths |-> all_paths,
                         all_schemas |-> all_schemas,
                         merged_params |-> merged_params],
                        cfg.name, cfg.base_path, cfg.spec_path, Files)} :
            /\ all_tags' = st.all_tags
            /\ all_paths' = st.all_paths
            /\ all_schemas' = st.all_schemas
            /\ merged_params' = st.merged_params
    /\ idx' = idx + 1
    /\ UNCHANGED <<sub_services, pc, bff, raised>>
    /\ UNCHANGED outsideMerge

\* lines 252-257, after the loop
ResolveRefs ==
    /\ pc = "merge"
    /\ idx > Len(sub_services)
    /\ all_schemas' = ResolveAllSchemas(all_schemas, sub_services)
    /\ pc' = "error"
    /\ UNCHANGED <<sub_services, idx, all_tags, all_paths, merged_params, bff, raised>>
    /\ UNCHANGED outsideMerge

\* line 258
AddErrorSchema ==
    /\ pc = "error"
    /\ \E unified \in {_add_error_schema(all_schemas, all_paths, sub_services)} :
          /\ all_schemas' = unified.all_schemas
          /\ all_paths' = unified.all_paths
    /\ pc' = "assemble"
    /\ UNCHANGED <<sub_services, idx, all_tags, merged_params, bff, raised>>
    /\ UNCHANGED outsideMerge

\* lines 260-263
Return ==
    /\ pc = "assemble"
    /\ bff' = Assemble(all_tags, all_paths, all_schemas, merged_params)
    /\ pc' = "done"
    /\ UNCHANGED <<sub_services, idx, all_tags, all_paths, all_schemas,
                   merged_params, raised>>
    /\ UNCHANGED outsideMerge

Next == MergeNextService \/ ResolveRefs \/ AddErrorSchema \/ Return

Spec == Init /\ [][Next]_vars

Done == pc = "done" /\ generate_pc = "idle"


\* ------------------------------------------------------------------------
\* The inputs of a run, as the properties below speak of them
\* ------------------------------------------------------------------------

\* the configured services whose spec file exists
Merged == {i \in 1..Len(sub_services) : sub_services[i].spec_path \in DOMAIN Files}

SpecOf(i) == Files[sub_services[i].spec_path]
NameOf(i) == sub_services[i].name
\* _to_pascal_case of every service name
PascalCaseOf == [n \in ServiceUniverse |-> _to_pascal_case(n)]
PrefixOf(i) == PascalCaseOf[sub_services[i].name]

SchemaNamesOf(i) == {SpecOf(i).schemas[k].name : k \in 1..Len(SpecOf(i).schemas)}

\* the (path, method) pairs of the operations of service i
OperationsOf(i) ==
    {pm \in (DOMAIN SpecOf(i).paths) \X Methods :
        /\ SpecOf(i).paths[pm[1]].isDict
        /\ pm[2] \in DOMAIN SpecOf(i).paths[pm[1]].items
        /\ SpecOf(i).paths[pm[1]].items[pm[2]].isDict}

InputOperation(i, pm) == SpecOf(i).paths[pm[1]].items[pm[2]]

\* two services define the same (path, method)
PathCollision ==
    \E i, j \in Merged : i # j /\ OperationsOf(i) \cap OperationsOf(j) # {}

\* the services that define a schema literally named Error
ErrorDefiners == {i \in Merged : ErrorName \in SchemaNamesOf(i)}

\* C1: a (path, method) pair defined by two different services makes the
\* merge fail with an error; it never returns a merged document.
C1_PathCollisionRaises == Done /\ PathCollision => raised # NoError

\* C2: two or more services each defining a schema named Error make the
\* merge fail with an error; it never picks one as the unified Error.
C2_MultipleErrorSchemasRaise ==
    Done /\ Cardinality(ErrorDefiners) >= 2 => raised # NoError

\* the "$ref" nodes (schema k of service i, position r) that target a schema
\* name N defined by service i itself
OwnRefs(i) ==
    {kr \in (1..Len(SpecOf(i).schemas)) \X (1..2) :
        /\ SpecOf(i).schemas[kr[1]].def.isDict
        /\ kr[2] <= Len(SpecOf(i).schemas[kr[1]].def.refs)
        /\ \E N \in SchemaNamesOf(i) :
              SpecOf(i).schemas[kr[1]].def.refs[kr[2]] = SchemaRef(N)}

OwnRefTarget(i, kr) ==
    CHOOSE N \in SchemaNamesOf(i) :
        SpecOf(i).schemas[kr[1]].def.refs[kr[2]] = SchemaRef(N)

\* in the returned document, the ref kr of service i names i's own
\* prefixed schema
ResolvedToOwn(i, kr) ==
    LET key == PrefixOf(i) \o SpecOf(i).schemas[kr[1]].name
    IN  /\ key \in DOMAIN bff.schemas
        /\ kr[2] <= Len(bff.schemas[key].refs)
        /\ bff.schemas[key].refs[kr[2]] = SchemaRef(PrefixOf(i) \o OwnRefTarget(i, kr))

\* the prefix of service j is a proper beginning of the prefix of service i
Overlaps(j, i) == PrefixOf(i) # PrefixOf(j) /\ StartsWith(PrefixOf(i), PrefixOf(j))

\* C3: when the prefix of one service begins the prefix of another, every
\* ref inside a schema of the longer-prefixed service resolves to that
\* service's own schema, whatever the other defines and in whatever order the
\* services are given.
C3_LongestPrefixOwnsRefs ==
    Done =>
        \A i, j \in Merged :
            Overlaps(j, i) => \A kr \in OwnRefs(i) : ResolvedToOwn(i, kr)

\* C4: when several services define a schema of the same name, every ref
\* inside a schema of service S to such a name is rewritten to S's own
\* prefixed schema.
C4_SameNameRefsStayInService ==
    Done =>
        \A i \in Merged : \A kr \in OwnRefs(i) :
            (\E j \in Merged : j # i /\ OwnRefTarget(i, kr) \in SchemaNamesOf(j))
                => ResolvedToOwn(i, kr)

\* sub_services listed in sorted order of service name
Reordered ==
    [k \in 1..Len(sub_services) |-> ConfigOf(sub_services, SortedServices[k])]

\* C5: the merged document does not depend on the insertion order of the
\* services in sub_services: it is the document obtained from the same
\* services inserted in sorted order.
C5_IndependentOfInsertionOrder ==
    Done => bff = merge_sub_service_specs(Reordered, Files)

\* no (path, method) of path p is defined by two services
NoCollisionOn(p) ==
    \A i, j \in Merged : i # j =>
        \A pm \in OperationsOf(i) \cap OperationsOf(j) : pm[1] # p

\* C6: when several services contribute different methods to one path, the
\* merged path item has every contributed method, each tagged with the
\* service that contributed it.
C6_MethodsOfAPathAreMerged ==
    Done =>
        \A i \in Merged : \A pm \in OperationsOf(i) :
            NoCollisionOn(pm[1]) =>
                /\ pm[1] \in DOMAIN bff.paths
                /\ pm[2] \in DOMAIN bff.paths[pm[1]]
                /\ bff.paths[pm[1]][pm[2]].xService = NameOf(i)


\* the merged key of schema N of service i
KeyOf(i, N) == PrefixOf(i) \o N

\* the (service, schema name) pairs of the input
InputSchemas == {iN \in Merged \X UNION {SchemaNamesOf(i) : i \in Merged} :
                    iN[2] \in SchemaNamesOf(iN[1])}

\* C7 (as stated): every input schema has its prefixed key in the merged
\* document, and no two distinct (service, schema) pairs give the same key.
C7_PrefixingIsInjective ==
    Done =>
        /\ \A iN \in InputSchemas : KeyOf(iN[1], iN[2]) \in DOMAIN bff.schemas
        /\ \A iN, jM \in InputSchemas :
              iN # jM => KeyOf(iN[1], iN[2]) # KeyOf(jM[1], jM[2])

\* the prefix of service i is not empty, and neither begins nor is begun by
\* the prefix of another merged service
DisjointPrefix(i) ==
    /\ PrefixOf(i) # <<>>
    /\ \A j \in Merged \ {i} :
          /\ ~StartsWith(PrefixOf(i), PrefixOf(j))
          /\ ~StartsWith(PrefixOf(j), PrefixOf(i))

\* C7 (amended): every input schema has its prefixed key in the merged
\* document; for a service whose prefix is disjoint from the other prefixes
\* no other (service, schema) pair gives one of its keys, and the merged
\* schema under each of its keys (other than the bare Error) is its own.
C7_PrefixingIsInjectiveForDisjointPrefixes ==
    Done =>
        LET keys == [jM \in InputSchemas |-> KeyOf(jM[1], jM[2])]
        IN  \A i \in Merged :
                LET disjoint == DisjointPrefix(i)
                    schemas  == SpecOf(i).schemas
                IN  \A k \in 1..Len(schemas) :
                        LET e   == schemas[k]
                            key == keys[<<i, e.name>>]
                        IN  /\ key \in DOMAIN bff.schemas
                            /\ disjoint =>
                                  /\ \A jM \in DOMAIN keys \ {<<i, e.name>>} :
                                        keys[jM] # key
                                  /\ key # ErrorName =>
                                        /\ bff.schemas[key].isDict = e.def.isDict
                                        /\ bff.schemas[key].type = e.def.type
                                        /\ bff.schemas[key].properties
                                               = e.def.properties

\* two services with disjoint prefixes that define a schema of the same name
\* have been merged
C7_Witness ==
    /\ Done
    /\ \E i, j \in Merged :
          /\ i # j
          /\ DisjointPrefix(i)
          /\ DisjointPrefix(j)
          /\ SchemaNamesOf(i) \cap SchemaNamesOf(j) # {}

\* every ref of the list targets a schema name of the set, or the bare Error
TargetsOnly(refs, names) ==
    \A r \in 1..Len(refs) : \E N \in names \cup {ErrorName} : refs[r] = SchemaRef(N)

\* every "$ref" of every input spec targets a schema of the same spec or the
\* bare Error
SelfContainedInputs ==
    \A i \in Merged :
        /\ \A k \in 1..Len(SpecOf(i).schemas) :
              TargetsOnly(SpecOf(i).schemas[k].def.refs, SchemaNamesOf(i))
        /\ \A pm \in OperationsOf(i) :
              /\ TargetsOnly(InputOperation(i, pm).requestBody, SchemaNamesOf(i))
              /\ TargetsOnly(InputOperation(i, pm).responses, SchemaNamesOf(i))

\* the operations of the returned document
MergedOperations ==
    {pm \in (DOMAIN bff.paths) \X Methods :
        pm[2] \in DOMAIN bff.paths[pm[1]] /\ bff.paths[pm[1]][pm[2]].isDict}

MergedOperation(pm) == bff.paths[pm[1]][pm[2]]

\* every ref of the list names a key of the merged components.schemas
Resolvable(refs) ==
    \A r \in 1..Len(refs) : \E k \in DOMAIN bff.schemas : refs[r] = SchemaRef(k)

\* C8: after a merge of self-contained inputs, every ref in every merged
\* schema and in the request and response bodies of every merged operation
\* names a key of the merged components.schemas.
C8_NoDanglingRefs ==
    Done /\ SelfContainedInputs =>
        /\ \A k \in DOMAIN bff.schemas : Resolvable(bff.schemas[k].refs)
        /\ \A pm \in MergedOperations :
              /\ Resolvable(MergedOperation(pm).requestBody)
              /\ Resolvable(MergedOperation(pm).responses)

\* the service that contributed a merged operation
OriginOf(pm) == CHOOSE i \in Merged : NameOf(i) = MergedOperation(pm).xService

\* wherever the input list has a ref to the bare Error, the merged list has
\* a ref to schema pe
ErrorRefsPointAt(input, merged, pe) ==
    \A r \in 1..Len(input) :
        input[r] = SchemaRef(ErrorName) => merged[r] = SchemaRef(pe)

\* C9: when exactly one service defines Error, the bare Error entry is a
\* "$ref" alias of that service's prefixed Error, and every ref to the bare
\* Error in the request and response bodies of every merged operation points
\* at that prefixed schema.
C9_SingleErrorIsUnified ==
    Done /\ Cardinality(ErrorDefiners) = 1 =>
        LET pe == KeyOf(CHOOSE i \in ErrorDefiners : TRUE, ErrorName)
        IN  /\ bff.schemas[ErrorName] = RefAlias(pe)
            /\ \A pm \in MergedOperations :
                  LET input == InputOperation(OriginOf(pm), pm)
                  IN  /\ ErrorRefsPointAt(input.requestBody,
                                          MergedOperation(pm).requestBody, pe)
                      /\ ErrorRefsPointAt(input.responses,
                                          MergedOperation(pm).responses, pe)

\* C10: the keys of the merged components.schemas are the prefixed names of
\* the input schemas and Error; when no service defines Error, the Error
\* entry is the synthesized object schema.
C10_SchemaKeysAndSynthesizedError ==
    Done =>
        /\ DOMAIN bff.schemas =
              {KeyOf(iN[1], iN[2]) : iN \in InputSchemas} \cup {ErrorName}
        /\ ErrorDefiners = {} => bff.schemas[ErrorName] = DefaultErrorSchema

\* ------------------------------------------------------------------------
\* Paths, proxy extensions, parameters and tags of the merged document
\* ------------------------------------------------------------------------

\* the path templates of the merged input documents, and those among them
\* whose path item is a mapping
InputPaths == UNION {DOMAIN SpecOf(i).paths : i \in Merged}

MappingPaths ==
    UNION {{p \in DOMAIN SpecOf(i).paths : SpecOf(i).paths[p].isDict} : i \in Merged}

\* a list of strings in strictly increasing lexicographic order
Increasing(q) == \A k \in 1..(Len(q) - 1) : StrLess(q[k], q[k + 1])

\* C11: the path templates of the merged document are exactly the path
\* templates of all merged sub-service documents, and the merged paths
\* mapping lists them in lexicographic key order.
C11_PathUnionSorted ==
    Done =>
        /\ DOMAIN bff.paths = InputPaths
        /\ Range(bff.pathKeys) = InputPaths
        /\ Increasing(bff.pathKeys)

\* C11, for the path templates whose path item is a mapping: the merged
\* document has exactly those, listed in lexicographic key order.
C11_MappingPathUnionSorted ==
    Done =>
        /\ DOMAIN bff.paths = MappingPaths
        /\ Range(bff.pathKeys) = MappingPaths
        /\ Increasing(bff.pathKeys)

\* three path templates merged from documents with different path sets
C11_Witness ==
    /\ Done
    /\ Len(bff.pathKeys) >= 3
    /\ \E i, j \in Merged :
          /\ DOMAIN SpecOf(i).paths \ DOMAIN SpecOf(j).paths # {}
          /\ DOMAIN SpecOf(j).paths \ DOMAIN SpecOf(i).paths # {}

\* only "/" characters
Slashes(s) == \A k \in 1..Len(s) : s[k] = "/"

\* b is s without the "/" characters at its end
IsRStripped(b, s) ==
    /\ Len(b) <= Len(s)
    /\ b = SubSeq(s, 1, Len(b))
    /\ Slashes(SubSeq(s, Len(b) + 1, Len(s)))
    /\ (b # <<>> => b[Len(b)] # "/")

\* q is s without the "/" characters at its beginning and at its end
IsStripped(q, s) ==
    \E k \in 0..Len(s) :
        /\ Slashes(SubSeq(s, 1, k))
        /\ (k < Len(s) => s[k + 1] # "/")
        /\ IsRStripped(q, SubSeq(s, k + 1, Len(s)))

\* d joins the stripped base path and the stripped operation path by one "/"
IsDownstreamPath(d, base_path, path) ==
    \E nb \in 0..Len(base_path) :
        /\ IsRStripped(SubSeq(base_path, 1, nb), base_path)
        /\ nb <= Len(d)
        /\ SubSeq(d, 1, nb) = SubSeq(base_path, 1, nb)
        /\ IF nb = Len(d)
           THEN IsStripped(<<>>, path)
           ELSE /\ d[nb + 1] = "/"
                /\ nb + 1 < Len(d)
                /\ IsStripped(SubSeq(d, nb + 2, Len(d)), path)

\* C12: every merged operation carries the name of a service that defines
\* it, that service's base path, and the downstream path made of the base
\* path without trailing slashes, one "/", and the operation path without
\* leading and trailing slashes (the stripped base path alone for the root).
C12_ProxyExtensions ==
    Done =>
        \A pm \in MergedOperations :
            \E i \in Merged :
                /\ pm \in OperationsOf(i)
                /\ MergedOperation(pm).xService = NameOf(i)
                /\ MergedOperation(pm).xBasePath = sub_services[i].base_path
                /\ IsDownstreamPath(MergedOperation(pm).xDownstream,
                                    sub_services[i].base_path, pm[1])

\* operations of a service whose base path ends in "/", on the root path
\* and on a path with slashes at both ends
C12_Witness ==
    /\ Done
    /\ \E pm \in MergedOperations :
          /\ pm[1] = Root
          /\ MergedOperation(pm).xBasePath # RStripSlash(MergedOperation(pm).xBasePath)
    /\ \E pm \in MergedOperations :
          /\ pm[1] = ItemsSlashes
          /\ MergedOperation(pm).xBasePath # RStripSlash(MergedOperation(pm).xBasePath)
    /\ \E pm \in MergedOperations :
          MergedOperation(pm).xBasePath = RStripSlash(MergedOperation(pm).xBasePath)

\* the parameters of service i
ParamsOf(i) == SpecOf(i).parameters

ParamNamesOf(i) == {ParamsOf(i)[k].name : k \in 1..Len(ParamsOf(i))}

ParamDefOf(i, pn) ==
    ParamsOf(i)[CHOOSE k \in 1..Len(ParamsOf(i)) : ParamsOf(i)[k].name = pn].def

\* the first service, in sorted service-name order, that defines parameter pn
FirstDefiner(pn) ==
    CHOOSE i \in Merged :
        /\ pn \in ParamNamesOf(i)
        /\ \A j \in Merged :
              pn \in ParamNamesOf(j) => j = i \/ StrLess(NameOf(i), NameOf(j))

\* C13: the merged components.parameters has exactly the parameter names of
\* the merged documents, each once and unchanged, each with the definition
\* given by the first service in sorted service-name order that has it.
C13_ParametersFirstWins ==
    Done =>
        /\ {bff.parameters[k].name : k \in 1..Len(bff.parameters)}
               = UNION {ParamNamesOf(i) : i \in Merged}
        /\ \A k, l \in 1..Len(bff.parameters) :
              bff.parameters[k].name = bff.parameters[l].name => k = l
        /\ \A k \in 1..Len(bff.parameters) :
              bff.parameters[k].def =
                  ParamDefOf(FirstDefiner(bff.parameters[k].name),
                             bff.parameters[k].name)

\* two services define the same parameter name differently
C13_Witness ==
    /\ Done
    /\ \E i, j \in Merged :
          \E pn \in ParamNamesOf(i) \cap ParamNamesOf(j) :
              ParamDefOf(i, pn) # ParamDefOf(j, pn)
    /\ Len(bff.parameters) >= 2

\* the tag names of the merged input documents
TagNamesOf(i) == {SpecOf(i).tags[k].value : k \in 1..Len(SpecOf(i).tags)}

\* C14: the merged tags list has each tag name of the merged documents
\* exactly once, as a {name: ...} object, in lexicographic order of name.
C14_TagsSortedUnion ==
    Done =>
        LET names == [k \in 1..Len(bff.tags) |-> bff.tags[k].name]
        IN  /\ Range(names) = UNION {TagNamesOf(i) : i \in Merged}
            /\ Increasing(names)
            /\ \A k \in 1..Len(bff.tags) : DOMAIN bff.tags[k] = {"name"}

\* one tag name given by two services, as an object and as a plain string,
\* beside another tag
C14_Witness ==
    /\ Done
    /\ Len(bff.tags) >= 2
    /\ \E i, j \in Merged :
          \E k \in 1..Len(SpecOf(i).tags), l \in 1..Len(SpecOf(j).tags) :
              /\ SpecOf(i).tags[k].value = SpecOf(j).tags[l].value
              /\ SpecOf(i).tags[k].isDict
              /\ ~SpecOf(j).tags[l].isDict

\* ------------------------------------------------------------------------
\* bff/generate.py: generate_bff_spec
\* ------------------------------------------------------------------------

\* the most services in one suite config
MaxSuiteServices == 2

SuiteServiceUniverse == {Api, Auth, Idam}

\* the spec files a suite config names
SuiteSpecPaths ==
    {"catalog.yaml", "old-version.yaml", "no-openapi.yaml", "no-info.yaml",
     "no-paths.yaml", "missing.yaml"}

\* yaml.dump(bff, f) read back by yaml.safe_load: the document in the file
AsDocument(b) ==
    [openapi    |-> b.openapi,
     hasInfo    |-> b.hasInfo,
     hasPaths   |-> TRUE,
     tags       |-> [k \in 1..Len(b.tags) |-> TagObject(b.tags[k].name)],
     paths      |-> [p \in DOMAIN b.paths |-> PathItem(b.paths[p])],
     schemas    |-> [k \in 1..Len(b.schemaKeys) |->
                       [name |-> b.schemaKeys[k], def |-> b.schemas[b.schemaKeys[k]]]],
     parameters |-> b.parameters]

\* _validate_spec on the document of the file: the exception it raises
_validate_spec(spec) ==
    IF spec = NoDocument \/ spec.openapi # "3.1.0" THEN "ValueError"
    ELSE IF ~spec.hasPaths \/ ~spec.hasInfo THEN "ValueError"
    ELSE NoError

GenerateInit ==
    /\ MergeIdle
    /\ SystemIdle
    /\ DependabotIdle
    /\ TagIdle
    /\ BumpIdle
    /\ VersionIdle
    /\ CompareIdle
    /\ PortsIdle
    /\ generate_pc = "config"
    /\ \E n \in 0..MaxSuiteServices :
         \E names \in [1..n -> SuiteServiceUniverse], docs \in [1..n -> SuiteSpecPaths] :
            /\ \A i, j \in 1..n : i # j => names[i] # names[j]
            /\ config =
                 [i \in 1..n |-> [name      |-> names[i],
                                  base_path |-> BasePathOf(names[i]),
                                  spec_path |-> docs[i]]]
    /\ validate \in BOOLEAN
    /\ out_file = NoDocument

\* lines 31-47: no services is an error, otherwise merge_sub_service_specs
\* is called with them
LoadSuiteConfig ==
    /\ generate_pc = "config"
    /\ IF config = <<>>
       THEN /\ raised' = "ValueError"
            /\ generate_pc' = "done"
            /\ UNCHANGED <<sub_services, pc>>
       ELSE /\ sub_services' = config
            /\ pc' = "merge"
            /\ generate_pc' = "merge"
            /\ UNCHANGED raised
    /\ UNCHANGED <<idx, all_tags, all_paths, all_schemas, merged_params, bff>>
    /\ UNCHANGED <<config, validate, out_file>>
    /\ UNCHANGED outsideGenerate

\* lines 57-72: the merged document is written to the output path
WriteOutput ==
    /\ generate_pc = "merge"
    /\ pc = "done"
    /\ out_file' = AsDocument(bff)
    /\ generate_pc' = "validate"
    /\ UNCHANGED <<mergeVars, config, validate>>
    /\ UNCHANGED outsideGenerate

\* lines 74-77: _validate_spec(out) if validate, then return
ValidateOutput ==
    /\ generate_pc = "validate"
    /\ raised' = IF validate THEN _validate_spec(out_file) ELSE NoError
    /\ generate_pc' = "done"
    /\ UNCHANGED <<sub_services, pc, idx, all_tags, all_paths, all_schemas,
                   merged_params, bff>>
    /\ UNCHANGED <<config, validate, out_file>>
    /\ UNCHANGED outsideGenerate

GenerateNext ==
    \/ LoadSuiteConfig
    \/ MergeNextService
    \/ ResolveRefs
    \/ AddErrorSchema
    \/ Return
    \/ WriteOutput
    \/ ValidateOutput

GenerateSpec == GenerateInit /\ [][GenerateNext]_vars

\* the basic shape validation: "openapi" is 3.1.0, "info" and "paths" exist
WellShaped(spec) == spec.openapi = "3.1.0" /\ spec.hasInfo /\ spec.hasPaths

\* the configured services whose document fails the shape validation
IllShaped ==
    {i \in 1..Len(config) :
        /\ config[i].spec_path \in DOMAIN Files
        /\ ~WellShaped(Files[config[i].spec_path])}

\* C15: when a configured sub-service document fails the basic shape
\* validation, generation ends with an error and writes no output that
\* has the document merged into it.
C15_IllShapedSubServiceRaises ==
    generate_pc = "done" /\ IllShaped # {} =>
        raised # NoError /\ out_file = NoDocument

\* ------------------------------------------------------------------------
\* bff/discovery.py and bff/generate_system.py
\* ------------------------------------------------------------------------

\* the most calls of generate_system_bff_spec in a row
MaxRuns == 2

\* the system name, a hidden directory, and the file name "openapi.yaml"
System == Idam
Hidden == << ".", "g", "i", "t" >>
OutputName ==
    << "o", "p", "e", "n", "a", "p", "i", ".", "y", "a", "m", "l" >>

\* f"/api/v1/{system}/{service_name}"
SystemBasePath(system, service_name) ==
    << "/", "a", "p", "i", "/", "v", "1", "/" >> \o system \o << "/" >>
        \o service_name

\* an entry of the system directory: a directory, with the document of its
\* openapi.yaml if it has one, or a plain file with its document
Directory(spec) == [isDir |-> TRUE, spec |-> spec]
PlainFile(spec) == [isDir |-> FALSE, spec |-> spec]

\* discover_sub_services without the test service_name == system
discover_sub_services_with_system_dir(dir, system) ==
    IF ~dir.exists THEN <<>>
    ELSE LET names   == SortedSeq(DOMAIN dir.entries)
             Keep(n) == /\ dir.entries[n].isDir
                        /\ ~StartsWith(n, << "." >>)
                        /\ dir.entries[n].spec # NoDocument
             kept    == SelectSeq(names, Keep)
         IN  [k \in 1..Len(kept) |->
                [name      |-> kept[k],
                 base_path |-> SystemBasePath(system, kept[k]),
                 spec_path |-> kept[k]]]

\* discover_sub_services: spec_path is named by the service directory
discover_sub_services(dir, system) ==
    IF ~dir.exists THEN <<>>
    ELSE LET names   == SortedSeq(DOMAIN dir.entries)
             Keep(n) == /\ dir.entries[n].isDir
                        /\ ~(StartsWith(n, << "." >>) \/ n = system)
                        /\ dir.entries[n].spec # NoDocument
             kept    == SelectSeq(names, Keep)
         IN  [k \in 1..Len(kept) |->
                [name      |-> kept[k],
                 base_path |-> SystemBasePath(system, kept[k]),
                 spec_path |-> kept[k]]]

\* the openapi.yaml files of the directories: _load_spec on a spec_path
SpecFiles(dir) ==
    [n \in {n \in DOMAIN dir.entries :
               dir.entries[n].isDir /\ dir.entries[n].spec # NoDocument} |->
        dir.entries[n].spec]

\* lines 89-91: Page, Limit and Search are added unless present
RECURSIVE AddDefaultParameters(_, _)
AddDefaultParameters(parameters, defaults) ==
    IF defaults = <<>> THEN parameters
    ELSE AddDefaultParameters(
             IF \E i \in 1..Len(parameters) : parameters[i].name = Head(defaults)
             THEN parameters
             ELSE Append(parameters, [name |-> Head(defaults), def |-> "default"]),
             Tail(defaults))

_DEFAULT_PARAMETERS == << "Page", "Limit", "Search" >>

\* lines 93-104: the file at out is replaced by the dumped document; out is
\* openapi.yaml in the system directory or in the directory named where
WriteSystemOutput(dir, where, doc) ==
    [exists  |-> TRUE,
     entries |-> IF where = <<>>
                 THEN Put(dir.entries, OutputName, PlainFile(doc))
                 ELSE Put(dir.entries, where, Directory(doc))]

\* generate_system_bff_spec: the system directory after the call
generate_system_bff_spec(dir, system, where) ==
    LET sub_svcs == discover_sub_services(dir, system)
    IN  IF sub_svcs = <<>> THEN dir
        ELSE LET merged == merge_sub_service_specs(sub_svcs, SpecFiles(dir))
                 doc    == [AsDocument(merged) EXCEPT
                               !.parameters =
                                   AddDefaultParameters(@, _DEFAULT_PARAMETERS)]
             IN  WriteSystemOutput(dir, where, doc)

\* what a directory entry may be before the first call
EntryChoices(n) ==
    CASE n = Hidden     -> {Directory(CatalogDocument)}
      [] n = OutputName -> {PlainFile(WebErrorDocument)}
      [] n = System     -> {Directory(NoDocument), Directory(WebErrorDocument)}
      [] OTHER          -> {Directory(NoDocument), Directory(CatalogDocument),
                            Directory(OwnErrorDocument)}

EntryNames == {Api, Auth, System, Hidden, OutputName}

SystemInit ==
    /\ MergeIdle
    /\ GenerateIdle
    /\ DependabotIdle
    /\ TagIdle
    /\ BumpIdle
    /\ VersionIdle
    /\ CompareIdle
    /\ PortsIdle
    /\ \/ system_dir = [exists |-> FALSE, entries |-> <<>>]
       \/ \E present \in SUBSET EntryNames :
             \E entries \in [present -> UNION {EntryChoices(n) : n \in EntryNames}] :
                /\ \A n \in present : entries[n] \in EntryChoices(n)
                /\ system_dir = [exists |-> TRUE, entries |-> entries]
    /\ output_path \in {<<>>, System, Api}
    /\ runs = <<>>

\* one call of generate_system_bff_spec(openapi_dir, system, output_path)
GenerateSystem ==
    /\ Len(runs) < MaxRuns
    /\ \E after \in {generate_system_bff_spec(system_dir, System, output_path)} :
          /\ system_dir' = after
          /\ runs' = Append(runs, [before |-> system_dir, after |-> after])
    /\ UNCHANGED output_path
    /\ UNCHANGED outsideSystem

SystemNext == GenerateSystem

SystemSpec == SystemInit /\ [][SystemNext]_vars

\* the document of the output file, if the file exists
OutputOf(dir) ==
    LET n == IF output_path = <<>> THEN OutputName ELSE output_path
    IN  IF dir.exists /\ n \in DOMAIN dir.entries THEN dir.entries[n].spec
        ELSE NoDocument

\* the sub-service directories: every directory under the system directory
\* but the system's own
SubServiceTree(dir) ==
    [n \in {n \in DOMAIN dir.entries : dir.entries[n].isDir /\ n # System} |->
        dir.entries[n]]

\* C16: a call made over the same sub-service directories as the call
\* before it leaves the output file with the same content, and a call in
\* which discovery finds no sub-service changes nothing on disk.
C16_SystemGenerationIdempotent ==
    /\ \A k \in 2..Len(runs) :
          SubServiceTree(runs[k].before) = SubServiceTree(runs[k - 1].before)
              => OutputOf(runs[k].after) = OutputOf(runs[k - 1].after)
    /\ \A k \in 1..Len(runs) :
          discover_sub_services(runs[k].before, System) = <<>>
              => runs[k].after = runs[k].before

\* two calls over the same two sub-services, the output written into the
\* system's own directory; and a call that found nothing
C16_Witness ==
    /\ Len(runs) = 2
    /\ SubServiceTree(runs[2].before) = SubServiceTree(runs[1].before)
    /\ Len(discover_sub_services(runs[1].before, System)) = 2
    /\ output_path = System
    /\ OutputOf(runs[1].before) # OutputOf(runs[1].after)
    /\ OutputOf(runs[2].after) # NoDocument

\* ------------------------------------------------------------------------
\* dependabot/automerge.py: process_dependabot_pr
\* ------------------------------------------------------------------------

\* the most events handled for one pull request
MaxEvents == 3

Major == "version-update:semver-major"
Minor == "version-update:semver-minor"
Patch == "version-update:semver-patch"

\* the body posted by comment_on_major_update, and some other comment
MajorUpdateComment == "Major version update - requires manual review"
OtherComment == "LGTM"

\* PR titles: "Bump serde from 1.2.3 to <new>", and one without versions
Titles ==
    {[names |-> "serde", versions |-> TRUE, old |-> <<1, 2, 3>>, new |-> <<2, 0, 0>>],
     [names |-> "serde", versions |-> TRUE, old |-> <<1, 2, 3>>, new |-> <<1, 3, 0>>],
     [names |-> "serde", versions |-> TRUE, old |-> <<1, 2, 3>>, new |-> <<1, 2, 4>>],
     [names |-> "unknown", versions |-> FALSE, old |-> <<>>, new |-> <<>>]}

\* extract_metadata_from_title on the title of the pull request
extract_metadata_from_title(title) ==
    [dependency_names |-> title.names,
     update_type |->
        IF title.versions
        THEN IF title.old[1] # title.new[1] THEN Major
             ELSE IF title.old[2] # title.new[2] THEN Minor
             ELSE Patch
        ELSE Major]

\* lines 205-220: the metadata of the environment for a pull_request event
\* that has both values, the metadata of the title otherwise
Metadata(event, p) ==
    IF /\ event.name = "pull_request"
       /\ event.DEPENDENCY_NAMES # ""
       /\ event.UPDATE_TYPE # ""
    THEN [dependency_names |-> event.DEPENDENCY_NAMES,
          update_type |-> event.UPDATE_TYPE]
    ELSE extract_metadata_from_title(p.title)

\* check_mergeability with ready = mergeable
Ready_when_mergeable(p) == p.mergeable

\* check_mergeability: ready
Ready(p) == p.mergeable /\ p.mergeable_state = "clean"

\* process_dependabot_pr on one event: how it ends, the comment it posts
\* and the merge it requests.  event.gh_ok says whether the gh commands of
\* the run succeed (run_gh_command exits 1 on the first that fails).
process_dependabot_pr(event, p) ==
    LET quiet(code) == [exit |-> code, comment |-> <<>>, merge |-> 0]
    IN  IF event.name \notin {"pull_request", "check_suite", "status"}
        THEN quiet("1")
        ELSE IF ~event.has_pr \/ ~event.gh_ok THEN quiet("1")
        ELSE IF p.author # "dependabot[bot]" THEN quiet("0")
        ELSE IF Metadata(event, p).update_type = Major
        THEN [exit |-> "0", comment |-> <<MajorUpdateComment>>, merge |-> 0]
        ELSE IF ~Ready(p) THEN quiet("0")
        ELSE [exit |-> "return", comment |-> <<>>, merge |-> 1]

\* the events of a workflow run: the event name, whether the payload names
\* a pull request, the metadata in the environment, the gh commands
Events ==
    [name : {"pull_request", "check_suite", "status", "push"},
     has_pr : BOOLEAN,
     DEPENDENCY_NAMES : {"", "some-dep"},
     UPDATE_TYPE : {"", Major, Minor},
     gh_ok : BOOLEAN]

DependabotInit ==
    /\ MergeIdle
    /\ GenerateIdle
    /\ SystemIdle
    /\ TagIdle
    /\ BumpIdle
    /\ VersionIdle
    /\ CompareIdle
    /\ PortsIdle
    /\ pr \in [author : {"dependabot[bot]", "octocat"},
               title : Titles,
               mergeable : BOOLEAN,
               mergeable_state : {"clean", "blocked"}]
    /\ comments \in {<<>>, <<OtherComment>>, <<MajorUpdateComment>>}
    /\ merges = 0
    /\ exit_code = "none"
    /\ handled = 0
    /\ last_run = [event |-> NoEvent, pr |-> pr]

\* one workflow run: process_dependabot_pr on an event of the pull request
ProcessDependabotPr ==
    /\ handled < MaxEvents
    /\ \E event \in Events :
          \E run \in {process_dependabot_pr(event, pr)} :
             /\ comments' = comments \o run.comment
             /\ merges' = merges + run.merge
             /\ exit_code' = run.exit
             /\ last_run' = [event |-> event, pr |-> pr]
    /\ handled' = handled + 1
    /\ UNCHANGED pr
    /\ UNCHANGED outsideDependabot

\* the checks of the pull request finish: GitHub reports it clean
ChecksPass ==
    /\ pr.mergeable_state = "blocked"
    /\ pr' = [pr EXCEPT !.mergeable_state = "clean"]
    /\ UNCHANGED <<comments, merges, exit_code, handled, last_run>>
    /\ UNCHANGED outsideDependabot

DependabotNext == ProcessDependabotPr \/ ChecksPass

DependabotSpec == DependabotInit /\ [][DependabotNext]_vars

\* the comments of the pull request that carry the major-update marker
MarkerComments == {k \in 1..Len(comments) : comments[k] = MajorUpdateComment}

\* C17: a major update gets the manual-review comment only when the pull
\* request has none yet, so however many events are handled the pull
\* request never carries more than one manual-review comment.
C17_AtMostOneManualReviewComment == Cardinality(MarkerComments) <= 1

\* the last run ended by requesting the merge
MergeRequested == exit_code = "return"

\* the last run found its pull request and its gh commands succeeded
FoundPullRequest ==
    /\ last_run.event.name \in {"pull_request", "check_suite", "status"}
    /\ last_run.event.has_pr
    /\ last_run.event.gh_ok

\* the last run took the update type from the environment
FromEnvironment ==
    /\ last_run.event.name = "pull_request"
    /\ last_run.event.DEPENDENCY_NAMES # ""
    /\ last_run.event.UPDATE_TYPE # ""

\* the title of the pull request tells a minor or patch update
TitleTellsMinorOrPatch ==
    /\ last_run.pr.title.versions
    /\ last_run.pr.title.old[1] = last_run.pr.title.new[1]

\* the pull request was mergeable and clean when the last run saw it
SeenReady == last_run.pr.mergeable /\ last_run.pr.mergeable_state = "clean"

\* C22 as stated: a merge is requested only for a pull request of
\* dependabot[bot] whose update is not semver-major and that is mergeable
\* and clean; every other run exits 0 without merging; and a pull request
\* whose title has no version pair is never merged.
C22_MergesOnlyReadyMinorOrPatchUpdates ==
    handled > 0 =>
        /\ MergeRequested =>
              /\ last_run.pr.author = "dependabot[bot]"
              /\ Metadata(last_run.event, last_run.pr).update_type # Major
              /\ SeenReady
        /\ ~MergeRequested => exit_code = "0"
        /\ ~pr.title.versions => merges = 0

\* C22, amended: a run that finds its pull request with gh working requests
\* the merge exactly when the author is dependabot[bot], the update type
\* (of the environment for a pull_request event that carries both values,
\* of the title otherwise) is not semver-major, and the pull request is
\* mergeable and clean, and exits 0 without merging otherwise; a run that
\* finds no pull request or whose gh command fails exits 1 without merging;
\* a title without a version pair prevents the merge whenever the update
\* type is taken from the title.
C22_MergesOnlyReadyNonMajorUpdates ==
    handled > 0 =>
        /\ MergeRequested <=>
              /\ FoundPullRequest
              /\ last_run.pr.author = "dependabot[bot]"
              /\ \/ FromEnvironment /\ last_run.event.UPDATE_TYPE # Major
                 \/ ~FromEnvironment /\ TitleTellsMinorOrPatch
              /\ SeenReady
        /\ exit_code = "1" <=> ~FoundPullRequest
        /\ exit_code \in {"0", "1", "return"}
        /\ ~FromEnvironment /\ ~last_run.pr.title.versions => ~MergeRequested
        /\ merges <= handled
        /\ merges > 0 =>
              /\ pr.author = "dependabot[bot]"
              /\ pr.mergeable /\ pr.mergeable_state = "clean"

\* a pull_request event with UPDATE_TYPE semver-minor in the environment on
\* a ready pull request whose title has no version pair: merged
C22_Witness ==
    /\ MergeRequested
    /\ merges = 1
    /\ last_run.event.name = "pull_request"
    /\ last_run.event.UPDATE_TYPE = Minor
    /\ ~last_run.pr.title.versions

\* ------------------------------------------------------------------------
\* helpers.py: fibonacci_backoff_sequence; ci/get_latest_tag.py
\* ------------------------------------------------------------------------

\* max_retries: int = 20, and fibonacci_backoff_sequence(max_total_seconds=300)
DefaultMaxRetries == 20
BackoffBudget == 300

\* the loop of fibonacci_backoff_sequence with a, b = b, 2 * b
RECURSIVE DoublingLoop(_, _, _, _, _)
DoublingLoop(sequence, total, a, b, max_total_seconds) ==
    IF total + a <= max_total_seconds
    THEN DoublingLoop(Append(sequence, a), total + a, b, 2 * b, max_total_seconds)
    ELSE sequence

fibonacci_backoff_sequence_doubling(max_total_seconds) ==
    DoublingLoop(<<>>, 0, 1, 2, max_total_seconds)

\* the loop of fibonacci_backoff_sequence
RECURSIVE BackoffLoop(_, _, _, _, _)
BackoffLoop(sequence, total, a, b, max_total_seconds) ==
    IF total + a <= max_total_seconds
    THEN BackoffLoop(Append(sequence, a), total + a, b, a + b, max_total_seconds)
    ELSE sequence

fibonacci_backoff_sequence(max_total_seconds) ==
    BackoffLoop(<<>>, 0, 1, 1, max_total_seconds)

\* lines 38-42: the wait after the failure of attempt (counted from 0)
WaitTime(backoff_sequence, n) ==
    IF n < Len(backoff_sequence) THEN backoff_sequence[n + 1]
    ELSE IF backoff_sequence # <<>> THEN backoff_sequence[Len(backoff_sequence)]
    ELSE 1

\* s.lstrip("v")
RECURSIVE LStripV(_)
LStripV(s) == IF s # <<>> /\ Head(s) = "v" THEN LStripV(Tail(s)) ELSE s

\* the tag_name values of the latest release: v0.39.0, 0.39.0, v0.39.0-rc.2,
\* and a release without tag_name
TagNames ==
    {<< "v", "0", ".", "3", "9", ".", "0" >>,
     << "0", ".", "3", "9", ".", "0" >>,
     << "v", "0", ".", "3", "9", ".", "0", "-", "r", "c", ".", "2" >>,
     <<>>}

\* the exceptions that are retried
TransientErrors == {"HTTPError", "URLError", "JSONDecodeError"}

TagInit ==
    /\ MergeIdle
    /\ GenerateIdle
    /\ SystemIdle
    /\ DependabotIdle
    /\ BumpIdle
    /\ VersionIdle
    /\ CompareIdle
    /\ PortsIdle
    /\ max_retries \in 0..DefaultMaxRetries
    /\ attempt = 0
    /\ requests = 0
    /\ sleeps = <<>>
    /\ last_error = "None"
    /\ response = NoResponse
    /\ tag_pc = "loop"
    /\ tag_result = None
    /\ tag_exit = NoExit

\* lines 32-35: the request is answered with a release
RequestSucceeds ==
    /\ tag_pc = "loop"
    /\ attempt < max_retries
    /\ \E tag_name \in TagNames :
          /\ response' = [kind |-> "release", tag_name |-> tag_name]
          /\ tag_result' = IF tag_name # <<>> THEN LStripV(tag_name) ELSE None
    /\ requests' = requests + 1
    /\ tag_pc' = "returned"
    /\ UNCHANGED <<max_retries, attempt, sleeps, last_error, tag_exit>>
    /\ UNCHANGED outsideTag

\* lines 48-50: the request is answered with HTTP 404
RequestNotFound ==
    /\ tag_pc = "loop"
    /\ attempt < max_retries
    /\ response' = [kind |-> "404", tag_name |-> <<>>]
    /\ tag_result' = None
    /\ requests' = requests + 1
    /\ tag_pc' = "returned"
    /\ UNCHANGED <<max_retries, attempt, sleeps, last_error, tag_exit>>
    /\ UNCHANGED outsideTag

\* lines 36-47, 51-73: another HTTP error, a network error or invalid JSON:
\* the error is kept, the run sleeps and the loop goes on
RequestFails ==
    /\ tag_pc = "loop"
    /\ attempt < max_retries
    /\ \E e \in TransientErrors :
          /\ response' = [kind |-> e, tag_name |-> <<>>]
          /\ last_error' = e
    /\ requests' = requests + 1
    /\ sleeps' = Append(sleeps,
                        WaitTime(fibonacci_backoff_sequence(BackoffBudget), attempt))
    /\ attempt' = attempt + 1
    /\ UNCHANGED <<max_retries, tag_pc, tag_result, tag_exit>>
    /\ UNCHANGED outsideTag

\* lines 75-79: the loop is over
GiveUp ==
    /\ tag_pc = "loop"
    /\ attempt >= max_retries
    /\ tag_exit' = [retries |-> max_retries,
                    detail  |-> IF last_error = "HTTPError"
                                THEN "HTTP code and reason" ELSE last_error]
    /\ tag_pc' = "raised"
    /\ UNCHANGED <<max_retries, attempt, requests, sleeps, last_error, response,
                   tag_result>>
    /\ UNCHANGED outsideTag

TagNext == RequestSucceeds \/ RequestNotFound \/ RequestFails \/ GiveUp

TagSpec == TagInit /\ [][TagNext]_vars

\* the Fibonacci numbers 1, 1, 2, 3, 5, ...
RECURSIVE Fibonacci(_)
Fibonacci(k) == IF k <= 2 THEN 1 ELSE Fibonacci(k - 1) + Fibonacci(k - 2)

RECURSIVE FibonacciSum(_)
FibonacciSum(n) == IF n = 0 THEN 0 ELSE FibonacciSum(n - 1) + Fibonacci(n)

\* the tag name without one leading "v"
WithoutV(tag_name) ==
    IF tag_name # <<>> /\ Head(tag_name) = "v" THEN Tail(tag_name) ELSE tag_name

\* what C18 says of requests, results and the exit, apart from the sleeps
RetriesAndResults ==
    /\ requests <= max_retries
    /\ Len(sleeps) = attempt
    /\ tag_pc = "returned" =>
          /\ requests = Len(sleeps) + 1
          /\ response.kind \in {"release", "404"}
          /\ response.kind = "404" => tag_result = None
          /\ response.kind = "release" /\ response.tag_name # <<>> =>
                tag_result = WithoutV(response.tag_name)
    /\ tag_pc = "loop" => requests = Len(sleeps)
    /\ tag_pc = "raised" =>
          /\ requests = max_retries
          /\ Len(sleeps) = max_retries
          /\ tag_exit.retries = max_retries

\* C18: at most max_retries requests are made; the first release answered
\* is returned without its leading v, a 404 gives None at once, the k-th
\* failure is followed by a sleep of the k-th Fibonacci number, and
\* SystemExit is raised once max_retries requests have failed.
C18_RetriesWithFibonacciBackoff ==
    /\ RetriesAndResults
    /\ \A k \in 1..Len(sleeps) : sleeps[k] = Fibonacci(k)

\* the length of the longest run of Fibonacci numbers that sums to at most
\* the budget
Affordable(budget) ==
    CHOOSE n \in 0..budget :
        FibonacciSum(n) <= budget /\ FibonacciSum(n + 1) > budget

\* C18, with the sleeps as they are: the k-th Fibonacci number as long as
\* the numbers slept so far sum to at most 300 (k <= 11), and the 11th, 89,
\* after every later failure.
C18_RetriesWithCappedFibonacciBackoff ==
    /\ RetriesAndResults
    /\ \A k \in 1..Len(sleeps) :
          sleeps[k] = IF k <= Affordable(BackoffBudget) THEN Fibonacci(k)
                      ELSE Fibonacci(Affordable(BackoffBudget))

\* a release returned after twelve failed requests
C18_Witness ==
    /\ tag_pc = "returned"
    /\ Len(sleeps) >= 12
    /\ response.kind = "release"
    /\ tag_result # None
    /\ tag_result # response.tag_name

\* the seconds slept in all
RECURSIVE TotalSleep(_)
TotalSleep(s) == IF s = <<>> THEN 0 ELSE Head(s) + TotalSleep(Tail(s))

\* fibonacci_backoff_sequence(m) is 1, 1, 2, 3, 5, ... as far as the sum
\* stays within m, and no further
LongestAffordablePrefix(m) ==
    LET sequence == fibonacci_backoff_sequence(m)
    IN  /\ \A k \in DOMAIN sequence : sequence[k] = Fibonacci(k)
        /\ FibonacciSum(Len(sequence)) <= m
        /\ FibonacciSum(Len(sequence) + 1) > m

BackoffSequencesAreLongestPrefixes ==
    \A m \in 0..BackoffBudget : LongestAffordablePrefix(m)

\* C29: fibonacci_backoff_sequence(m) is the longest prefix of 1, 1, 2, 3,
\* 5, ... that sums to at most m, and get_latest_tag never sleeps more
\* than the budget of 300 seconds in all, whatever max_retries is.
C29_TotalSleepWithinBudget ==
    /\ BackoffSequencesAreLongestPrefixes
    /\ TotalSleep(sleeps) <= BackoffBudget

\* ------------------------------------------------------------------------
\* release/bump.py: _next_version
\* ------------------------------------------------------------------------

Digit == << "0", "1", "2", "3", "4", "5", "6", "7", "8", "9" >>

\* c is matched by \d, and by [\w.-]
IsDigit(c) == \E i \in 1..Len(Digit) : Digit[i] = c
IsWordDotDash(c) == c \notin {"#", "/"}

AllDigits(s) == s # <<>> /\ \A i \in 1..Len(s) : IsDigit(s[i])

\* int(s) for a run of digits, and str(n)
RECURSIVE IntOf(_)
IntOf(s) ==
    IF s = <<>> THEN 0
    ELSE 10 * IntOf(SubSeq(s, 1, Len(s) - 1)) + (Ord(s[Len(s)]) - Ord("0"))

RECURSIVE StrOf(_)
StrOf(n) ==
    IF n < 10 THEN <<Digit[n + 1]>>
    ELSE StrOf(n \div 10) \o <<Digit[(n % 10) + 1]>>

\* re.match(r"^(\d+)\.(\d+)\.(\d+)(?:-([\w.-]+))?$", v): the digits cannot
\* hold a "-", so the first "-" begins the prerelease, which runs to the end
ParseVersion(v) ==
    LET dashes == {i \in 1..Len(v) : v[i] = "-"}
        dash   == IF dashes = {} THEN 0
                  ELSE CHOOSE i \in dashes : \A j \in dashes : i <= j
        core   == IF dash = 0 THEN v ELSE SubSeq(v, 1, dash - 1)
        prerel == IF dash = 0 THEN None ELSE SubSeq(v, dash + 1, Len(v))
        parts  == Split(core, << "." >>)
    IN  IF /\ Len(parts) = 3
           /\ \A k \in 1..3 : AllDigits(parts[k])
           /\ dash # 0 =>
                 /\ prerel # <<>>
                 /\ \A i \in 1..Len(prerel) : IsWordDotDash(prerel[i])
        THEN [matched |-> TRUE,
              x |-> IntOf(parts[1]), y |-> IntOf(parts[2]), z |-> IntOf(parts[3]),
              prerel |-> prerel]
        ELSE [matched |-> FALSE, x |-> 0, y |-> 0, z |-> 0, prerel |-> None]

\* re.match(r"^rc\.(\d+)$", prerel) matches
IsRc(prerel) ==
    /\ StartsWith(prerel, << "r", "c", "." >>)
    /\ AllDigits(Drop(prerel, 3))

\* int of the last digit of N only
RcNumber_of_last_digit(prerel) == IntOf(<<prerel[Len(prerel)]>>)

\* int(m2.group(1))
RcNumber(prerel) == IntOf(Drop(prerel, 3))

\* f"{x}.{y}.{z}" and f"{x}.{y}.{z}-rc.{n}"
Release(x, y, z) ==
    StrOf(x) \o << "." >> \o StrOf(y) \o << "." >> \o StrOf(z)
ReleaseCandidate(x, y, z, n) ==
    Release(x, y, z) \o << "-", "r", "c", "." >> \o StrOf(n)

BumpPatch == << "p", "a", "t", "c", "h" >>
BumpMinor == << "m", "i", "n", "o", "r" >>
BumpMajor == << "m", "a", "j", "o", "r" >>
BumpRc == << "r", "c" >>
BumpRelease == << "r", "e", "l", "e", "a", "s", "e" >>
BumpPromote == << "p", "r", "o", "m", "o", "t", "e" >>

\* bump.lower() without the default: an empty or missing bump is kept
EffectiveBump_without_default(bump) ==
    IF bump = None THEN bump ELSE [i \in 1..Len(bump) |-> ToLower(bump[i])]

\* (bump or "patch").lower()
EffectiveBump(bump) ==
    IF bump = None \/ bump = <<>> THEN BumpPatch
    ELSE [i \in 1..Len(bump) |-> ToLower(bump[i])]

\* a version returned, and SystemExit(msg)
Returned(v) == [kind |-> "return", value |-> v]
SystemExit(code) == [kind |-> "SystemExit", value |-> None, code |-> code]

_next_version(old, bump) ==
    LET m == ParseVersion(LStripV(old))
        b == EffectiveBump(bump)
    IN  IF ~m.matched THEN SystemExit("Invalid version in workspace Cargo.toml")
        ELSE IF m.prerel # None /\ b \in {BumpPatch, BumpMinor, BumpMajor}
        THEN SystemExit("Cannot bump prerelease")
        ELSE IF b = BumpRc
        THEN IF m.prerel = None THEN Returned(ReleaseCandidate(m.x, m.y, m.z, 1))
             ELSE IF ~IsRc(m.prerel)
             THEN SystemExit("rc bump only supports -rc.N prerelease")
             ELSE Returned(ReleaseCandidate(m.x, m.y, m.z, RcNumber(m.prerel) + 1))
        ELSE IF b \in {BumpRelease, BumpPromote}
        THEN IF m.prerel = None THEN SystemExit("Already a full release")
             ELSE Returned(Release(m.x, m.y, m.z))
        ELSE IF b = BumpPatch THEN Returned(Release(m.x, m.y, m.z + 1))
        ELSE IF b = BumpMinor THEN Returned(Release(m.x, m.y + 1, 0))
        ELSE IF b = BumpMajor THEN Returned(Release(m.x + 1, 0, 0))
        ELSE SystemExit("Unknown bump")

\* the version numbers, prereleases and malformed versions tried
VersionNumbers == {0, 2, 9, 99}
OtherPrereleases ==
    {<< "a", "l", "p", "h", "a" >>, << "r", "c" >>, << "r", "c", ".", "x" >>,
     << "r", "c", "2" >>}
MalformedVersions ==
    {<<>>, << "1", ".", "2" >>, << "a", "b", "c" >>,
     << "1", ".", "2", ".", "3", ".", "4" >>, << "1", ".", ".", "3" >>,
     << "1", ".", "2", ".", "3", "-" >>, << "1", ".", "2", ".", "x" >>,
     << "1", ".", "2", ".", "3", "#" >>, << "1", ".", "2", ".", "3", "-", "/" >>}

Releases == {Release(x, y, z) : x, y, z \in VersionNumbers}
ReleaseCandidates ==
    {ReleaseCandidate(x, y, z, n) : x, y, z \in {0, 9}, n \in VersionNumbers}
OtherPrereleaseVersions ==
    {Release(x, 2, z) \o << "-" >> \o pre :
        x, z \in VersionNumbers, pre \in OtherPrereleases}

BumpVersions ==
    LET plain == Releases \cup ReleaseCandidates \cup OtherPrereleaseVersions
    IN  plain \cup {<< "v" >> \o v : v \in plain} \cup MalformedVersions

Bumps ==
    {BumpPatch, BumpMinor, BumpMajor, BumpRc, BumpRelease, BumpPromote,
     <<>>, None, << "p", "r", "e", "m", "i", "n", "o", "r" >>,
     << "P", "a", "t", "c", "h" >>, << "R", "C" >>}

BumpInit ==
    /\ MergeIdle
    /\ GenerateIdle
    /\ SystemIdle
    /\ DependabotIdle
    /\ TagIdle
    /\ VersionIdle
    /\ CompareIdle
    /\ PortsIdle
    /\ bump_old \in BumpVersions
    /\ bump_arg \in Bumps
    /\ bump_result = NoResult
    /\ bump_pc = "call"

\* the call _next_version(old, bump)
NextVersion ==
    /\ bump_pc = "call"
    /\ bump_result' = _next_version(bump_old, bump_arg)
    /\ bump_pc' = "done"
    /\ UNCHANGED <<bump_old, bump_arg>>
    /\ UNCHANGED outsideBump

BumpNext == NextVersion

BumpSpec == BumpInit /\ [][BumpNext]_vars

\* the bump asked for: patch when it is empty or missing, names in any case
BumpAsked ==
    IF bump_arg \in {<<>>, None} THEN BumpPatch
    ELSE [i \in 1..Len(bump_arg) |-> ToLower(bump_arg[i])]

\* bump_old is the version v, with or without a leading v
OldIs(v) == bump_old = v \/ bump_old = << "v" >> \o v

BumpGives(v) == bump_result.kind = "return" /\ bump_result.value = v
BumpFails == bump_result.kind = "SystemExit" /\ bump_result.value = None

\* C19: from X.Y.Z patch, minor, major and rc give X.Y.(Z+1), X.(Y+1).0,
\* (X+1).0.0 and X.Y.Z-rc.1 and release/promote fail; from X.Y.Z-rc.N rc
\* gives X.Y.Z-rc.(N+1), release/promote give X.Y.Z and patch, minor, major
\* fail; no bump means patch; any other bump, a prerelease that is not rc.N
\* under rc, and a malformed version fail with SystemExit and no version.
C19_NextVersionLifecycle ==
    bump_pc = "done" =>
        /\ \A x, y, z \in VersionNumbers :
              OldIs(Release(x, y, z)) =>
                  /\ BumpAsked = BumpPatch => BumpGives(Release(x, y, z + 1))
                  /\ BumpAsked = BumpMinor => BumpGives(Release(x, y + 1, 0))
                  /\ BumpAsked = BumpMajor => BumpGives(Release(x + 1, 0, 0))
                  /\ BumpAsked = BumpRc => BumpGives(ReleaseCandidate(x, y, z, 1))
                  /\ BumpAsked \in {BumpRelease, BumpPromote} => BumpFails
        /\ \A x, y, z, n \in VersionNumbers :
              OldIs(ReleaseCandidate(x, y, z, n)) =>
                  /\ BumpAsked = BumpRc =>
                        BumpGives(ReleaseCandidate(x, y, z, n + 1))
                  /\ BumpAsked \in {BumpRelease, BumpPromote} =>
                        BumpGives(Release(x, y, z))
                  /\ BumpAsked \in {BumpPatch, BumpMinor, BumpMajor} => BumpFails
        /\ BumpAsked \notin {BumpPatch, BumpMinor, BumpMajor, BumpRc,
                              BumpRelease, BumpPromote} => BumpFails
        /\ (\E v \in OtherPrereleaseVersions : OldIs(v)) /\ BumpAsked = BumpRc =>
              BumpFails
        /\ bump_old \in MalformedVersions => BumpFails
        /\ bump_result.kind \in {"return", "SystemExit"}

\* v9.9.99 with no bump named: 9.9.100
C19_Witness ==
    /\ bump_pc = "done"
    /\ bump_old = << "v" >> \o Release(9, 9, 99)
    /\ bump_arg = <<>>
    /\ bump_result = Returned(<< "9", ".", "9", ".", "1", "0", "0" >>)

\* ------------------------------------------------------------------------
\* helpers.py: compare_versions; ci/validate_version.py
\* ------------------------------------------------------------------------

\* compare_versions: the int returned, or ValueError
compare_versions(v1, v2) ==
    LET p1 == ParseVersion(LStripV(v1))
        p2 == ParseVersion(LStripV(v2))
        value(n) == [raised |-> NoError, value |-> n]
    IN  IF ~p1.matched \/ ~p2.matched THEN [raised |-> "ValueError", value |-> 0]
        ELSE IF p1.x # p2.x THEN value(p1.x - p2.x)
        ELSE IF p1.y # p2.y THEN value(p1.y - p2.y)
        ELSE IF p1.z # p2.z THEN value(p1.z - p2.z)
        ELSE IF p1.prerel = None /\ p2.prerel # None THEN value(1)
        ELSE IF p1.prerel # None /\ p2.prerel = None THEN value(-1)
        ELSE IF p1.prerel = None /\ p2.prerel = None THEN value(0)
        ELSE IF IsRc(p1.prerel) /\ IsRc(p2.prerel)
        THEN value(RcNumber(p1.prerel) - RcNumber(p2.prerel))
        ELSE IF StrLess(p1.prerel, p2.prerel) THEN value(-1)
        ELSE IF StrLess(p2.prerel, p1.prerel) THEN value(1)
        ELSE value(0)

\* validate_version with cmp_val >= 0 accepted
validate_version_accepting_same(cur, lat, same) ==
    IF lat = None THEN Returned(<< "0" >>)
    ELSE LET cmp_val == compare_versions(cur, lat)
         IN  IF cmp_val.raised # NoError
             THEN SystemExit(<< "Version comparison error" >>)
             ELSE IF cmp_val.value >= 0 THEN Returned(<< "0" >>)
             ELSE SystemExit(<< "1" >>)

\* validate_version: 0 returned, or SystemExit with code 1 or with a message
validate_version(cur, lat, same) ==
    IF lat = None THEN Returned(<< "0" >>)
    ELSE LET cmp_val == compare_versions(cur, lat)
         IN  IF cmp_val.raised # NoError
             THEN SystemExit(<< "Version comparison error" >>)
             ELSE IF cmp_val.value > 0 THEN Returned(<< "0" >>)
             ELSE IF cmp_val.value = 0
             THEN IF same THEN Returned(<< "0" >>) ELSE SystemExit(<< "1" >>)
             ELSE SystemExit(<< "1" >>)

\* run_validate_version_cli; gh is the environment: whether GITHUB_REPOSITORY
\* and GITHUB_TOKEN are set, and what get_latest_tag answers or that it raises
run_validate_version_cli(cur, lat, same, gh) ==
    IF cur = None \/ cur = <<>> THEN Returned(<< "1" >>)
    ELSE IF (lat = None \/ lat = <<>>) /\ ~gh.env THEN Returned(<< "1" >>)
    ELSE IF (lat = None \/ lat = <<>>) /\ gh.raises
    THEN SystemExit(<< "Failed to fetch latest release" >>)
    ELSE LET fetched == IF lat = None \/ lat = <<>> THEN gh.tag ELSE lat
             ended   == validate_version(cur, fetched, same)
         IN  IF ended.kind = "return" THEN Returned(<< "0" >>)
             ELSE Returned(ended.code)

\* the versions compared: x.y.z and x.y.z-rc.n, rc = 0 standing for a release
ComparedVersions == [x : {0, 1}, y : {9, 10}, z : {0, 1}, rc : {0, 2, 10}]

VersionText(t) ==
    IF t.rc = 0 THEN Release(t.x, t.y, t.z)
    ELSE ReleaseCandidate(t.x, t.y, t.z, t.rc)

VersionTexts ==
    {VersionText(t) : t \in ComparedVersions}
        \cup {<< "v" >> \o VersionText(t) : t \in ComparedVersions}

\* what the environment may be
GithubChoices ==
    {[env |-> FALSE, raises |-> FALSE, tag |-> None],
     [env |-> TRUE, raises |-> FALSE, tag |-> None],
     [env |-> TRUE, raises |-> FALSE, tag |-> ReleaseCandidate(0, 10, 0, 2)],
     [env |-> TRUE, raises |-> TRUE, tag |-> None]}

VersionInit ==
    /\ MergeIdle
    /\ GenerateIdle
    /\ SystemIdle
    /\ DependabotIdle
    /\ TagIdle
    /\ BumpIdle
    /\ CompareIdle
    /\ PortsIdle
    /\ current \in VersionTexts \cup {None, <<>>, << "1", ".", "2" >>}
    /\ latest \in VersionTexts \cup {None, <<>>, << "a", "b", "c" >>}
    /\ allow_same \in BOOLEAN
    /\ github \in GithubChoices
    /\ validated = NoResult
    /\ cli_exit = NoResult

\* the call validate_version(current, latest, allow_same), current a str
ValidateVersion ==
    /\ validated.kind = "none"
    /\ current # None
    /\ validated' = validate_version(current, latest, allow_same)
    /\ UNCHANGED <<current, latest, allow_same, github, cli_exit>>
    /\ UNCHANGED outsideVersion

\* the call run_validate_version_cli(current, latest, allow_same)
RunValidateVersionCli ==
    /\ cli_exit.kind = "none"
    /\ cli_exit' = run_validate_version_cli(current, latest, allow_same, github)
    /\ UNCHANGED <<current, latest, allow_same, github, validated>>
    /\ UNCHANGED outsideVersion

VersionNext == ValidateVersion \/ RunValidateVersionCli

VersionSpec == VersionInit /\ [][VersionNext]_vars

\* the version a text stands for
VersionOf ==
    [s \in VersionTexts |->
        CHOOSE t \in ComparedVersions :
            s = VersionText(t) \/ s = << "v" >> \o VersionText(t)]

\* a is strictly greater than b: by x, then y, then z; then a release is
\* greater than its release candidates, which go by their number
Greater(a, b) ==
    \/ a.x > b.x
    \/ a.x = b.x /\ a.y > b.y
    \/ a.x = b.x /\ a.y = b.y /\ a.z > b.z
    \/ a.x = b.x /\ a.y = b.y /\ a.z = b.z /\ a.rc = 0 /\ b.rc # 0
    \/ a.x = b.x /\ a.y = b.y /\ a.z = b.z /\ b.rc # 0 /\ a.rc > b.rc

\* the exit code C20 gives for a current version and a latest release
ExpectedCode(cur, lat) ==
    IF lat = None THEN << "0" >>
    ELSE IF Greater(VersionOf[cur], VersionOf[lat]) THEN << "0" >>
    ELSE IF VersionOf[cur] = VersionOf[lat] /\ allow_same THEN << "0" >>
    ELSE << "1" >>

\* the latest release run_validate_version_cli validates against
EffectiveLatest == IF latest \in {None, <<>>} THEN github.tag ELSE latest

\* C20: validate_version returns 0 when there is no latest release, when
\* current is strictly greater, or when they are equal and allow_same is
\* set, and raises SystemExit(1) when they are equal without allow_same
\* or current is lower; run_validate_version_cli returns the same code.
C20_ValidateVersionPreventsDowngrade ==
    /\ /\ validated.kind # "none"
       /\ current \in VersionTexts
       /\ latest \in VersionTexts \cup {None}
       => validated = IF ExpectedCode(current, latest) = << "0" >>
                      THEN Returned(<< "0" >>) ELSE SystemExit(<< "1" >>)
    /\ /\ cli_exit.kind # "none"
       /\ current \in VersionTexts
       /\ \/ latest \in VersionTexts
          \/ latest \in {None, <<>>} /\ github.env /\ ~github.raises
       => cli_exit = Returned(ExpectedCode(current, EffectiveLatest))

\* v0.10.0-rc.10 against 0.10.0-rc.10 without allow_same: both calls say 1
C20_Witness ==
    /\ current = << "v" >> \o ReleaseCandidate(0, 10, 0, 10)
    /\ latest = ReleaseCandidate(0, 10, 0, 10)
    /\ ~allow_same
    /\ validated = SystemExit(<< "1" >>)
    /\ cli_exit = Returned(<< "1" >>)

\* ------------------------------------------------------------------------
\* helpers.py: compare_versions as an ordering
\* ------------------------------------------------------------------------

\* the prereleases compared: rc.9, rc.10, rc.1x and alpha
ComparedPrereleases ==
    {<< "r", "c", ".", "9" >>, << "r", "c", ".", "1", "0" >>,
     << "r", "c", ".", "1", "x" >>, << "a", "l", "p", "h", "a" >>}

\* 0.9.0 and 0.10.0, as releases and with each prerelease; v0.10.0; and the
\* malformed 1.2
ComparedCores == {Release(0, 9, 0), Release(0, 10, 0)}

ComparedTexts ==
    ComparedCores
        \cup {core \o << "-" >> \o pre :
                 core \in ComparedCores, pre \in ComparedPrereleases}
        \cup {<< "v" >> \o Release(0, 10, 0), << "1", ".", "2" >>}

CompareInit ==
    /\ MergeIdle
    /\ GenerateIdle
    /\ SystemIdle
    /\ DependabotIdle
    /\ TagIdle
    /\ BumpIdle
    /\ VersionIdle
    /\ PortsIdle
    /\ compared \in [1..3 -> ComparedTexts]
    /\ comparisons = <<>>

\* compare_versions(compared[i], compared[j]) for every i and j
CompareVersions ==
    /\ compared # <<>>
    /\ comparisons = <<>>
    /\ comparisons' =
          [n \in 1..9 |->
              compare_versions(compared[((n - 1) \div 3) + 1],
                               compared[((n - 1) % 3) + 1])]
    /\ UNCHANGED compared
    /\ UNCHANGED outsideCompare

CompareNext == CompareVersions

CompareSpec == CompareInit /\ [][CompareNext]_vars

\* the result of compare_versions(compared[i], compared[j])
Compared(i, j) == comparisons[3 * (i - 1) + j]

\* the versions among the three that are valid
ValidCompared == {i \in 1..3 : Compared(i, i).raised = NoError}

Sign(n) == IF n > 0 THEN 1 ELSE IF n < 0 THEN 0 - 1 ELSE 0

\* swapping the arguments flips the sign
SignFlips ==
    \A i, j \in ValidCompared :
        Sign(Compared(j, i).value) = 0 - Sign(Compared(i, j).value)

\* greater-or-equal is transitive, and strictly so when one step is strict
ComparisonIsTransitive ==
    \A i, j, k \in ValidCompared :
        /\ Compared(i, j).value >= 0 /\ Compared(j, k).value >= 0 =>
              Compared(i, k).value >= 0
        /\ Compared(i, j).value > 0 /\ Compared(j, k).value >= 0 =>
              Compared(i, k).value > 0

\* a release is greater than each prerelease of the same X.Y.Z
ReleaseAbovePrerelease ==
    \A i, j \in ValidCompared :
        (\E core \in ComparedCores, pre \in ComparedPrereleases :
            /\ LStripV(compared[i]) = core
            /\ LStripV(compared[j]) = core \o << "-" >> \o pre)
        => Compared(i, j).value > 0

\* release candidates of the same X.Y.Z go by their number
CandidatesByNumber ==
    \A i, j \in ValidCompared :
        \A core \in ComparedCores : \A n, m \in {9, 10} :
            /\ LStripV(compared[i]) = core \o << "-", "r", "c", "." >> \o StrOf(n)
            /\ LStripV(compared[j]) = core \o << "-", "r", "c", "." >> \o StrOf(m)
            => Sign(Compared(i, j).value) = Sign(n - m)

\* versions of different X.Y.Z go by X, then Y, then Z
CoresByNumber ==
    \A i, j \in ValidCompared :
        /\ StartsWith(LStripV(compared[i]), Release(0, 10, 0))
        /\ StartsWith(LStripV(compared[j]), Release(0, 9, 0))
        => Compared(i, j).value > 0

\* C21: over valid versions compare_versions is a consistent ordering: its
\* sign flips when the arguments are swapped, it is transitive, a release
\* is greater than every prerelease of the same X.Y.Z, release candidates
\* go by their number, and different X.Y.Z go by their numbers.
C21_CompareVersionsIsAnOrdering ==
    comparisons # <<>> =>
        /\ SignFlips
        /\ ComparisonIsTransitive
        /\ ReleaseAbovePrerelease
        /\ CandidatesByNumber
        /\ CoresByNumber

\* ------------------------------------------------------------------------
\* ports/registry.py: PortRegistry
\* ------------------------------------------------------------------------

START_PORT == 8001
RESERVED_PORTS == {8080}

\* preferred_port: int | None = None, and the None of release_port
NoPort == 0

\* the most assign_port and release_port calls in a run
MaxCalls == 4

\* _load_registry without a registry file
EmptyRegistry ==
    [next_port |-> START_PORT, reserved_ports |-> RESERVED_PORTS,
     assignments |-> <<>>]

\* set(assignments.values())
Assigned(reg) == {reg.assignments[s] : s \in DOMAIN reg.assignments}

\* the loop of _find_next_available_port
RECURSIVE NextAvailable(_, _, _)
NextAvailable(port, assigned, reserved) ==
    IF port \in assigned \/ port \in reserved
    THEN NextAvailable(port + 1, assigned, reserved)
    ELSE port

\* _find_next_available_port searching from START_PORT
_find_next_available_port_from_start(reg) ==
    NextAvailable(START_PORT, Assigned(reg), reg.reserved_ports)

_find_next_available_port(reg) ==
    NextAvailable(reg.next_port, Assigned(reg), reg.reserved_ports)

\* lines 141-145 with only "preferred_port is not None"
UsablePreferred_when_given(reg, preferred_port) == preferred_port # NoPort

\* lines 141-145: the preferred port is given, not assigned and not reserved
UsablePreferred(reg, preferred_port) ==
    /\ preferred_port # NoPort
    /\ preferred_port \notin Assigned(reg)
    /\ preferred_port \notin reg.reserved_ports

Max(a, b) == IF a >= b THEN a ELSE b

\* assign_port: the registry after the call, the port and changed returned,
\* and whether the port came from _find_next_available_port
assign_port(reg, service_name, force, preferred_port) ==
    IF service_name \in DOMAIN reg.assignments /\ ~force
    THEN [registry |-> reg, port |-> reg.assignments[service_name],
          changed |-> FALSE, automatic |-> FALSE]
    ELSE LET usable == UsablePreferred(reg, preferred_port)
             port == IF usable THEN preferred_port
                     ELSE _find_next_available_port(reg)
         IN  [registry |->
                 [reg EXCEPT
                     !.assignments =
                         [s \in DOMAIN reg.assignments \cup {service_name} |->
                             IF s = service_name THEN port
                             ELSE reg.assignments[s]],
                     !.next_port = Max(reg.next_port, port + 1)],
              port |-> port, changed |-> TRUE, automatic |-> ~usable]

\* release_port: the registry after the call and the port returned
release_port(reg, service_name) ==
    IF service_name \notin DOMAIN reg.assignments
    THEN [registry |-> reg, port |-> NoPort]
    ELSE [registry |->
             [reg EXCEPT
                 !.assignments =
                     [s \in DOMAIN reg.assignments \ {service_name} |->
                         reg.assignments[s]]],
          port |-> reg.assignments[service_name]]

\* the services, in sorted order, and the preferred ports asked for
PortServices == <<"accounts", "billing", "cart">>
PreferredPorts == {NoPort, 8002, 8079, 8080}

PortsInit ==
    /\ MergeIdle
    /\ GenerateIdle
    /\ SystemIdle
    /\ DependabotIdle
    /\ TagIdle
    /\ BumpIdle
    /\ VersionIdle
    /\ CompareIdle
    /\ registry = EmptyRegistry
    /\ helm = <<>>
    /\ suite_keepers = {}
    /\ dry_run = FALSE
    /\ ever_assigned = {}
    /\ last_call = NoCall
    /\ port_calls = 0
    /\ fix_before = NoFix

\* registry.assign_port(service_name, force, preferred_port)
AssignPort ==
    /\ port_calls < MaxCalls
    /\ \E n \in DOMAIN PortServices, force \in BOOLEAN,
          preferred_port \in PreferredPorts :
          \E call \in {assign_port(registry, PortServices[n], force,
                                   preferred_port)} :
             /\ registry' = call.registry
             /\ ever_assigned' =
                   IF call.changed THEN ever_assigned \cup {call.port}
                   ELSE ever_assigned
             /\ last_call' =
                   [op |-> "assign", service |-> PortServices[n],
                    force |-> force, preferred |-> preferred_port,
                    before |-> registry, earlier |-> ever_assigned,
                    port |-> call.port, changed |-> call.changed,
                    automatic |-> call.automatic]
    /\ port_calls' = port_calls + 1
    /\ UNCHANGED <<helm, suite_keepers, dry_run, fix_before>>
    /\ UNCHANGED outsidePorts

\* registry.release_port(service_name)
ReleasePort ==
    /\ port_calls < MaxCalls
    /\ \E n \in DOMAIN PortServices :
          \E call \in {release_port(registry, PortServices[n])} :
             /\ registry' = call.registry
             /\ last_call' =
                   [op |-> "release", service |-> PortServices[n],
                    force |-> FALSE, preferred |-> NoPort,
                    before |-> registry, earlier |-> ever_assigned,
                    port |-> call.port,
                    changed |-> call.port # NoPort, automatic |-> FALSE]
    /\ port_calls' = port_calls + 1
    /\ UNCHANGED <<helm, suite_keepers, dry_run, ever_assigned, fix_before>>
    /\ UNCHANGED outsidePorts

PortsNext == AssignPort \/ ReleasePort

PortsSpec == PortsInit /\ [][PortsNext]_vars

\* C23: from an empty registry, whatever assign_port and release_port calls
\* are made, no two services hold the same port and no assigned port is
\* reserved; and assign_port without force for a service that already has
\* a port returns that port with changed = False and leaves the registry
\* as it was.
C23_PortsUniqueAndUnreserved ==
    /\ \A s, t \in DOMAIN registry.assignments :
          registry.assignments[s] = registry.assignments[t] => s = t
    /\ \A s \in DOMAIN registry.assignments :
          registry.assignments[s] \notin registry.reserved_ports
    /\ /\ last_call.op = "assign"
       /\ ~last_call.force
       /\ last_call.service \in DOMAIN last_call.before.assignments
       => /\ last_call.port = last_call.before.assignments[last_call.service]
          /\ ~last_call.changed
          /\ registry = last_call.before

\* three services hold ports, one moved past the reserved 8080, and the
\* last call asked again for a service that was already assigned
C23_Witness ==
    /\ Cardinality(DOMAIN registry.assignments) = 3
    /\ 8081 \in Assigned(registry)
    /\ last_call.op = "assign"
    /\ ~last_call.force
    /\ ~last_call.changed
    /\ last_call.preferred = 8002

\* C30: next_port never decreases, and a port that assign_port takes from
\* _find_next_available_port is greater than every port assigned before,
\* so it is never a port that release_port freed.
C30_AutomaticPortsAreFresh ==
    last_call.op # "none" =>
        /\ registry.next_port >= last_call.before.next_port
        /\ last_call.op = "assign" /\ last_call.automatic =>
              /\ \A p \in last_call.earlier : last_call.port > p
              /\ last_call.port \notin
                    last_call.earlier \ Assigned(last_call.before)

\* a port was freed, and the next automatic assignment took a new one
C30_Witness ==
    /\ last_call.op = "assign"
    /\ last_call.automatic
    /\ last_call.earlier \ Assigned(last_call.before) # {}
    /\ last_call.port \in Assigned(registry)

\* ------------------------------------------------------------------------
\* ports/validate.py: fix_duplicates
\* ------------------------------------------------------------------------

\* update_config_files(service_name, port, port_only=True) on the helm
\* values: service.port of the values file of the service, when it exists
update_config_files(values, service_name, port) ==
    IF service_name \in DOMAIN values
    THEN [values EXCEPT ![service_name] = port]
    ELSE values

\* by_port[port]: the services of the helm values at a port, in the order
\* of the values files
ByPort(values, port) ==
    SelectSeq(PortServices,
              LAMBDA s : s \in DOMAIN values /\ values[s] = port)

\* sorted(ports)
RECURSIVE SortedPorts(_)
SortedPorts(ports) ==
    IF ports = {} THEN <<>>
    ELSE LET least == CHOOSE p \in ports : \A q \in ports : p <= q
         IN  <<least>> \o SortedPorts(ports \ {least})

\* dupes: the ports that several services share, in ascending order
Dupes(values) ==
    SortedPorts({values[s] : s \in DOMAIN values} \ 
                {p \in {values[s] : s \in DOMAIN values} :
                    Len(ByPort(values, p)) <= 1})

\* sorted(in_keep)[0] if in_keep else sorted(svcs)[0]
Keeper(svcs, keepers) ==
    LET in_keep == SelectSeq(svcs, LAMBDA s : s \in keepers)
    IN  IF in_keep # <<>> THEN Head(in_keep) ELSE Head(svcs)

\* lines 256-261: release the other services registered at the port
RECURSIVE ReleaseHolders(_, _, _, _)
ReleaseHolders(reg, svcs, keeper, port) ==
    IF svcs = <<>> THEN reg
    ELSE LET s == Head(svcs)
             held == /\ s # keeper
                     /\ s \in DOMAIN reg.assignments
                     /\ reg.assignments[s] = port
         IN  ReleaseHolders(IF held THEN release_port(reg, s).registry ELSE reg,
                            Tail(svcs), keeper, port)

\* lines 267-278: release each loser and give it the next available port
RECURSIVE ReassignLosers(_, _)
ReassignLosers(st, losers) ==
    IF losers = <<>> THEN st
    ELSE LET loser == Head(losers)
             freed == IF loser \in DOMAIN st.registry.assignments
                      THEN release_port(st.registry, loser).registry
                      ELSE st.registry
             call == assign_port(freed, loser, FALSE, NoPort)
         IN  ReassignLosers(
                 [registry |-> call.registry,
                  helm |-> update_config_files(st.helm, loser, call.port)],
                 Tail(losers))

\* the body of the loop over dupes, not dry_run, for one port
FixPort(st, port, svcs, keepers) ==
    LET keeper == Keeper(svcs, keepers)
        losers == SelectSeq(svcs, LAMBDA s : s # keeper)
        reg    == st.registry.assignments
        need_p_for_k == keeper \notin DOMAIN reg \/ reg[keeper] # port
        kept   ==
            IF need_p_for_k
            THEN [registry |->
                     assign_port(ReleaseHolders(st.registry, svcs, keeper, port),
                                 keeper, FALSE, port).registry,
                  helm |-> update_config_files(st.helm, keeper, port)]
            ELSE st
    IN  ReassignLosers(kept, losers)

\* the loop over dupes; the groups are those of the helm values read at
\* the start
RECURSIVE FixPorts(_, _, _, _)
FixPorts(st, ports, values, keepers) ==
    IF ports = <<>> THEN st
    ELSE FixPorts(FixPort(st, Head(ports), ByPort(values, Head(ports)), keepers),
                  Tail(ports), values, keepers)

\* fix_duplicates: the registry and the helm values it leaves
fix_duplicates(reg, values, keepers, dry) ==
    IF dry THEN [registry |-> reg, helm |-> values]
    ELSE FixPorts([registry |-> reg, helm |-> values], Dupes(values), values,
                  keepers)

\* the ports found in helm values and in the registry at the start
HelmPorts == {8001, 8002, 8080}
RegistryPorts == {8001, 8002, 8005}

\* the registries assign_port and release_port can leave over these ports
StartRegistries ==
    {[next_port |-> n, reserved_ports |-> RESERVED_PORTS, assignments |-> a] :
        n \in {8006},
        a \in {f \in UNION {[S -> RegistryPorts] :
                              S \in SUBSET {PortServices[k] :
                                              k \in DOMAIN PortServices}} :
                 \A s, t \in DOMAIN f : f[s] = f[t] => s = t}}

FixInit ==
    /\ MergeIdle
    /\ GenerateIdle
    /\ SystemIdle
    /\ DependabotIdle
    /\ TagIdle
    /\ BumpIdle
    /\ VersionIdle
    /\ CompareIdle
    /\ registry \in StartRegistries
    /\ helm \in UNION {[S -> HelmPorts] :
                         S \in SUBSET {PortServices[k] :
                                         k \in DOMAIN PortServices}}
    /\ suite_keepers \in SUBSET {"billing", "cart"}
    /\ dry_run \in BOOLEAN
    /\ ever_assigned = {}
    /\ last_call = NoCall
    /\ port_calls = 0
    /\ fix_before = NoFix

\* fix_duplicates(registry, project_root, dry_run)
FixDuplicates ==
    /\ ~fix_before.done
    /\ \E fixed \in {fix_duplicates(registry, helm, suite_keepers, dry_run)} :
          /\ registry' = fixed.registry
          /\ helm' = fixed.helm
    /\ fix_before' = [registry |-> registry, helm |-> helm, done |-> TRUE]
    /\ UNCHANGED <<suite_keepers, dry_run, ever_assigned, last_call, port_calls>>
    /\ UNCHANGED outsidePorts

FixNext == FixDuplicates

FixSpec == FixInit /\ [][FixNext]_vars

\* the registry holds the service at the port its helm values name
Agrees(s) ==
    /\ s \in DOMAIN registry.assignments
    /\ s \in DOMAIN helm
    /\ registry.assignments[s] = helm[s]

\* C24: after fix_duplicates without dry_run, for every port that several
\* services shared in the helm values, the keeper (the first suite service
\* of the group, else its first service) is registered at that port, each
\* other service of the group is registered at a port of its own, and the
\* helm values say the same; with dry_run nothing changes.
C24_FixDuplicatesRegistryAgreesWithHelm ==
    fix_before.done =>
        IF dry_run
        THEN registry = fix_before.registry /\ helm = fix_before.helm
        ELSE \A k \in DOMAIN Dupes(fix_before.helm) :
                LET port   == Dupes(fix_before.helm)[k]
                    svcs   == ByPort(fix_before.helm, port)
                    keeper == Keeper(svcs, suite_keepers)
                IN  /\ Agrees(keeper)
                    /\ helm[keeper] = port
                    /\ \A n \in DOMAIN svcs :
                          svcs[n] # keeper =>
                             /\ Agrees(svcs[n])
                             /\ helm[svcs[n]] # port
                             /\ \A s \in DOMAIN helm :
                                   helm[s] = helm[svcs[n]] => s = svcs[n]

\* ------------------------------------------------------------------------
\* release/bump.py with ci/validate_version.py: a bumped version validated
\* against the version it was bumped from
\* ------------------------------------------------------------------------

ReleaseInit ==
    /\ MergeIdle
    /\ GenerateIdle
    /\ SystemIdle
    /\ DependabotIdle
    /\ TagIdle
    /\ VersionIdle
    /\ CompareIdle
    /\ PortsIdle
    /\ bump_old \in BumpVersions
    /\ bump_arg \in Bumps
    /\ bump_result = NoResult
    /\ bump_pc = "call"

\* compare_versions(new, old) and validate_version(new, old) for the
\* version new that _next_version(old, bump) returned
ValidateBumped ==
    /\ bump_pc = "done"
    /\ bump_result.kind = "return"
    /\ validated.kind = "none"
    /\ current' = bump_result.value
    /\ latest' = bump_old
    /\ compared' = <<bump_result.value, bump_old>>
    /\ comparisons' = <<compare_versions(bump_result.value, bump_old)>>
    /\ validated' = validate_version(bump_result.value, bump_old, FALSE)
    /\ UNCHANGED <<allow_same, github, cli_exit>>
    /\ UNCHANGED bumpVars
    /\ UNCHANGED <<mergeVars, generateVars, systemVars, dependabotVars, tagVars,
                   portsVars>>

ReleaseNext == NextVersion \/ ValidateBumped

ReleaseSpec == ReleaseInit /\ [][ReleaseNext]_vars

\* the bumped version compares greater than the old one and validates
BumpedIsGreater ==
    /\ comparisons[1].raised = NoError
    /\ comparisons[1].value > 0
    /\ validated = Returned(<< "0" >>)

\* the bumped version compares lower than the old one and is rejected
BumpedIsLower ==
    /\ comparisons[1].raised = NoError
    /\ comparisons[1].value < 0
    /\ validated = SystemExit(<< "1" >>)

\* the bump was rc and the old version a full release X.Y.Z
RcOfFullRelease ==
    /\ EffectiveBump(bump_arg) = BumpRc
    /\ ParseVersion(LStripV(bump_old)).prerel = None

\* C28 as stated: whatever the bump, the version _next_version returns is
\* strictly greater than the old one under compare_versions, and
\* validate_version accepts it against the old one.
C28_BumpedVersionIsGreater ==
    validated.kind # "none" => BumpedIsGreater

\* C28, amended: the version _next_version returns is strictly greater
\* than the old one and validates against it, except for an rc bump of a
\* full release X.Y.Z: X.Y.Z-rc.1 is lower than X.Y.Z and is rejected.
C28_BumpedVersionIsGreaterUnlessRcOfRelease ==
    validated.kind # "none" =>
        IF RcOfFullRelease THEN BumpedIsLower ELSE BumpedIsGreater

\* 9.9.99 bumped with rc: 9.9.99-rc.1 is rejected against 9.9.99
C28_Witness ==
    /\ bump_old = Release(9, 9, 99)
    /\ bump_arg = BumpRc
    /\ compared = <<ReleaseCandidate(9, 9, 99, 1), Release(9, 9, 99)>>
    /\ validated = SystemExit(<< "1" >>)

\* ------------------------------------------------------------------------
\* bff/merge.py: which refs the merge rewrites, and to what
\* ------------------------------------------------------------------------

\* schema k of service i is the only input schema with its merged key
OnlyProducer(i, k) ==
    \A j \in Merged : \A n \in 1..Len(SpecOf(j).schemas) :
        KeyOf(j, SpecOf(j).schemas[n].name) = KeyOf(i, SpecOf(i).schemas[k].name)
            => j = i /\ n = k

\* the schema name a ref targets: the text after "#/components/schemas/"
TargetOf(ref) == Drop(ref, Len(RefMarker))

\* service i owns the merged key
Owns(i, key) == \E N \in SchemaNamesOf(i) : KeyOf(i, N) = key

\* a ref of the merged list that was rewritten to a merged schema names a
\* schema that service i owns, and a ref to a name that service i does not
\* define is the input ref
KeptOrOwn(i, input, merged) ==
    \A r \in 1..Len(input) :
        StartsWith(input[r], RefMarker) =>
            /\ \A j \in Merged : \A N \in SchemaNamesOf(j) :
                  merged[r] # input[r] /\ merged[r] = SchemaRef(KeyOf(j, N))
                      => Owns(i, KeyOf(j, N))
            /\ TargetOf(input[r]) \notin SchemaNamesOf(i) =>
                  merged[r] = input[r]

\* C25: a ref inside a merged schema of service S is rewritten only to a
\* schema that S owns; when S defines no schema of the referenced name the
\* ref stays as it was, whatever other services define.
C25_SchemaRefsStayWithTheirService ==
    Done =>
        \A i \in Merged : \A k \in 1..Len(SpecOf(i).schemas) :
            SpecOf(i).schemas[k].def.isDict /\ OnlyProducer(i, k) =>
                KeptOrOwn(i, SpecOf(i).schemas[k].def.refs,
                          bff.schemas[KeyOf(i, SpecOf(i).schemas[k].name)].refs)

\* each ref of the merged list is the input ref, or names the schema of
\* that name that service i defines, or names a prefixed Error for Error
KeptOrOwnOrError(i, input, merged) ==
    \A r \in 1..Len(input) :
        StartsWith(input[r], RefMarker) =>
            \/ merged[r] = input[r]
            \/ /\ TargetOf(input[r]) \in SchemaNamesOf(i)
               /\ merged[r] = SchemaRef(KeyOf(i, TargetOf(input[r])))
            \/ /\ TargetOf(input[r]) = ErrorName
               /\ \E j \in Merged : merged[r] = SchemaRef(KeyOf(j, ErrorName))

\* C26: a ref in the request or response bodies of an operation that
\* service S contributed is rewritten only to a schema that S owns, or to
\* the unified Error: merging another service never rewrites it.
C26_OperationRefsStayWithTheirService ==
    Done =>
        \A pm \in MergedOperations :
            LET i == OriginOf(pm)
            IN  /\ KeptOrOwnOrError(i, InputOperation(i, pm).requestBody,
                                    MergedOperation(pm).requestBody)
                /\ KeptOrOwnOrError(i, InputOperation(i, pm).responses,
                                    MergedOperation(pm).responses)

\* all_schemas as the loop over the services left it, before the global pass
SchemasBeforeGlobalPass ==
    MergeLoop(EmptyAccumulators, sub_services, SortedServices, Files).all_schemas

\* C27: the global pass changes only the schema name of a ref: a ref it
\* rewrites is "#/components/schemas/" followed by a merged key made of a
\* service prefix and the very name the ref had, also when that name occurs
\* inside "#/components/schemas/" itself.
C27_GlobalPassRewritesOnlyTheName ==
    pc = "error" =>
        \A k \in DOMAIN all_schemas :
            all_schemas[k].isDict =>
                \A r \in 1..Len(all_schemas[k].refs) :
                    LET old == SchemasBeforeGlobalPass[k].refs[r]
                        new == all_schemas[k].refs[r]
                    IN  StartsWith(old, RefMarker) /\ new # old =>
                            \E i \in Merged :
                                /\ new = SchemaRef(KeyOf(i, TargetOf(old)))
                                /\ KeyOf(i, TargetOf(old)) \in DOMAIN all_schemas

====
